---------------------------- MODULE Spec2Model ----------------------------
(***************************************************************************)
(* A model of the serde dispatch engine (Service.deserializePayload,       *)
(* Service.SerializeRecord), of the Avro framed codec                      *)
(* (AvroSerde.DeserializePayload) and of the schema registry client        *)
(* (Client.Get..., Client.GetSchemasIndividually).                         *)
(*                                                                         *)
(* Go values are modelled as follows.                                      *)
(*   []T        a record [isNil, elems]: a nil slice and an empty slice    *)
(*              are different values (payload == nil is observable)        *)
(*   *T         a record with an isNil field                               *)
(*   error      a string, NoErr ("") standing for the nil error            *)
(***************************************************************************)
EXTENDS Integers, Sequences, FiniteSets, TLC

VARIABLES
    SerDes,        \* Service.SerDes: the codec list, by codec type name
    phase,         \* "input": arguments chosen, "done": the call has returned
    record,        \* *kgo.Record: [Key, Value, Topic]
    payloadType,   \* PayloadTypeKey or PayloadTypeValue
    opts,          \* DeserializationOptions
    serdeOutcome,  \* what each codec outside src/ answers for this record
    schemaSvc,     \* the schema service seen by AvroSerde, and the Avro decoder
    rp,            \* the *RecordPayload returned by deserializePayload
    invoked,       \* the codecs deserializePayload invoked, in order
    avroRet,       \* what AvroSerde.DeserializePayload returned, with its calls
    input,         \* SerializeInput
    serOutcome,    \* what SerializeObject of each codec answers, per side
    serRet,        \* what SerializeRecord returned, with its calls
    op,            \* the registry client operation called
    response,      \* the resty response of that operation
    ret,           \* what the operation returned
    pc,            \* GetSchemas / GetSchemasIndividually: the parent's position
    subjects,      \* subjectsRes.Subjects
    failing,       \* the subjects whose "latest" fetch fails at the registry
    task,          \* per subject: the goroutine's position
    ch,            \* the buffered channel's content, chCap its capacity
    chCap,
    received,      \* the chRes values the parent took from ch, in order
    schemas,       \* the parent's schemas slice
    gsRet,         \* what GetSchemas / GetSchemasIndividually returned
    requests,      \* the requests they and the goroutines issued, in order
    offsetOutcome, \* what deserializeConsumerOffset answers for this record
    recRet,        \* the *Record returned by DeserializeRecord, with its calls
    reporter,      \* streamProgressReporter's task: position, request, locals
    ctxDone,       \* p.ctx is cancelled
    messagesConsumed,  \* p.messagesConsumed (atomic.Int64)
    bytesConsumed,     \* p.bytesConsumed (atomic.Int64)
    stream,        \* the progress messages sent over p.stream, in order
    consumers      \* per OnMessageConsumed call: its position and its size

vars == <<SerDes, phase, record, payloadType, opts, serdeOutcome, schemaSvc, rp,
          invoked, avroRet, input, serOutcome, serRet, op, response, ret, pc,
          subjects, failing, task, ch, chCap, received, schemas, gsRet,
          requests, offsetOutcome, recRet, reporter, ctxDone, messagesConsumed,
          bytesConsumed, stream, consumers>>

deserializeVars == <<record, payloadType, opts, serdeOutcome, schemaSvc, rp, invoked>>
avroVars        == <<avroRet>>
serializeVars   == <<input, serOutcome, serRet>>
clientVars      == <<op, response, ret>>
fanoutVars      == <<pc, subjects, failing, task, ch, chCap, received, schemas, gsRet,
                     requests>>
recordVars      == <<offsetOutcome, recRet>>
reporterVars    == <<reporter, ctxDone, messagesConsumed, bytesConsumed, stream,
                     consumers>>

-----------------------------------------------------------------------------
(* Bounds of the model *)

\* the longest payload drawn for the Avro codec
MaxPayloadLen == 6
\* the largest number of subjects the registry lists
MaxSubjects == 3
\* the number of progress messages after which the reporter's task is held
MaxReports == 3
\* the number of OnMessageConsumed calls
MaxCalls == 2

-----------------------------------------------------------------------------
(* Go values *)

NoErr == ""

NilSlice == [isNil |-> TRUE, elems |-> <<>>]
Slice(s) == [isNil |-> FALSE, elems |-> s]
len(s) == Len(s.elems)

PayloadTypeKey == "key"
PayloadTypeValue == "value"
PayloadTypes == {PayloadTypeKey, PayloadTypeValue}

PayloadEncodingNone == "none"
PayloadEncodingBinary == "binary"
payloadEncodingAvro == "avro"

\* the nil interface{} value of ParsedPayload, and the nil *uint32 of SchemaID
NilObj == [schema |-> -1, data |-> <<>>]
NilSchemaID == [isNil |-> TRUE, val |-> 0]

\* the nil *RecordPayload, and the zero RecordPayload{}
NilRP ==
    [isNil |-> TRUE, OriginalPayload |-> NilSlice, IsPayloadNull |-> FALSE,
     PayloadSizeBytes |-> 0, Encoding |-> "", NormalizedPayload |-> NilSlice,
     ParsedPayload |-> NilObj, IsPayloadTooLarge |-> FALSE,
     Troubleshooting |-> NilSlice, SchemaID |-> NilSchemaID]
RecordPayload == [NilRP EXCEPT !.isNil = FALSE]

payloadFromOtherSide(rec, pt) ==
    IF pt = PayloadTypeValue THEN rec.Key ELSE rec.Value

payloadFromRecord(rec, pt) ==
    IF pt = PayloadTypeValue THEN rec.Value ELSE rec.Key

-----------------------------------------------------------------------------
(* AvroSerde (avro.go) *)

\* the four bytes read in little-endian order
LittleEndianUint32(b) ==
    b[4] * 16777216 + b[3] * 65536 + b[2] * 256 + b[1]

\* binary.BigEndian.Uint32 of a four byte slice
BigEndianUint32(b) ==
    b[1] * 16777216 + b[2] * 65536 + b[3] * 256 + b[4]

\* schema.Service.GetAvroSchemaByID: the registry resolves the identifiers of
\* svc.known and fails for all others
GetAvroSchemaByID(svc, schemaID) ==
    IF schemaID \in svc.known
    THEN [schema |-> [id |-> schemaID], err |-> NoErr]
    ELSE [schema |-> [id |-> -1], err |-> "schema not found"]

\* avro.Unmarshal(schema, data, &obj): the body decodes against the schema or
\* it does not; the decoded object is determined by the schema and the body
Unmarshal(svc, schema, data) ==
    IF svc.decodes
    THEN [obj |-> [schema |-> schema.id, data |-> data], err |-> NoErr]
    ELSE [obj |-> NilObj, err |-> "avro: cannot decode"]

\* the codec asking the registry before it looks at the magic byte
AvroDeserializePayloadResolvingFirst(svc, rec, pt) ==
    LET fail(msg, rc, dc) ==
            [rp |-> RecordPayload, err |-> msg, resolverCalls |-> rc, decoderCalls |-> dc]
        payload == payloadFromRecord(rec, pt)
    IN  IF ~svc.configured THEN fail("no schema registry configured", <<>>, <<>>)
        ELSE IF len(payload) <= 5 THEN fail("payload length is < 5", <<>>, <<>>)
        ELSE
        LET schemaID == BigEndianUint32(SubSeq(payload.elems, 2, 5))
            got == GetAvroSchemaByID(svc, schemaID)
            body == SubSeq(payload.elems, 6, len(payload))
        IN  IF got.err # NoErr
            THEN fail("getting avro schema from registry", <<schemaID>>, <<>>)
            ELSE IF payload.elems[1] # 0
            THEN fail("incorrect magic byte", <<schemaID>>, <<>>)
            ELSE
            LET dec == Unmarshal(svc, got.schema, body)
                call == [schema |-> got.schema.id, data |-> body]
            IN  IF dec.err # NoErr
                THEN fail("decoding avro", <<schemaID>>, <<call>>)
                ELSE [rp |-> [RecordPayload EXCEPT !.ParsedPayload = dec.obj,
                                                   !.Encoding = payloadEncodingAvro],
                      err |-> NoErr,
                      resolverCalls |-> <<schemaID>>,
                      decoderCalls |-> <<call>>]

\* AvroSerde.DeserializePayload. resolverCalls and decoderCalls record the
\* calls to GetAvroSchemaByID and avro.Unmarshal it made, in order.
AvroDeserializePayload(svc, rec, pt) ==
    LET fail(msg, rc, dc) ==
            [rp |-> RecordPayload, err |-> msg, resolverCalls |-> rc, decoderCalls |-> dc]
        payload == payloadFromRecord(rec, pt)
    IN  IF ~svc.configured THEN fail("no schema registry configured", <<>>, <<>>)
        ELSE IF len(payload) <= 5 THEN fail("payload length is < 5", <<>>, <<>>)
        ELSE IF payload.elems[1] # 0 THEN fail("incorrect magic byte", <<>>, <<>>)
        ELSE
        LET schemaID == BigEndianUint32(SubSeq(payload.elems, 2, 5))
            got == GetAvroSchemaByID(svc, schemaID)
            body == SubSeq(payload.elems, 6, len(payload))
        IN  IF got.err # NoErr
            THEN fail("getting avro schema from registry", <<schemaID>>, <<>>)
            ELSE
            LET dec == Unmarshal(svc, got.schema, body)
                call == [schema |-> got.schema.id, data |-> body]
            IN  IF dec.err # NoErr
                THEN fail("decoding avro", <<schemaID>>, <<call>>)
                ELSE [rp |-> [RecordPayload EXCEPT !.ParsedPayload = dec.obj,
                                                   !.Encoding = payloadEncodingAvro],
                      err |-> NoErr,
                      resolverCalls |-> <<schemaID>>,
                      decoderCalls |-> <<call>>]

-----------------------------------------------------------------------------
(* Service (service.go) *)

defaultMaxPayloadSize == 1000000

\* the list with the two Protobuf codecs in the other order
NewServiceSchemaFirst ==
    << "NoneSerde", "JSONSerde", "JSONSchemaSerde", "XMLSerde", "AvroSerde",
       "ProtobufSchemaSerde", "ProtobufSerde", "MsgPackSerde", "SmileSerde",
       "UTF8Serde", "TextSerde", "UintSerde" >>

\* NewService: the codec list, each codec named by its Go type
NewService ==
    << "NoneSerde", "JSONSerde", "JSONSchemaSerde", "XMLSerde", "AvroSerde",
       "ProtobufSerde", "ProtobufSchemaSerde", "MsgPackSerde", "SmileSerde",
       "UTF8Serde", "TextSerde", "UintSerde" >>

\* serde.Name(): AvroSerde's is in avro.go; the other codecs' labels are
\* declared outside src/ and are taken to be non-empty and pairwise distinct
Name(serde) ==
    IF serde = "AvroSerde" THEN payloadEncodingAvro ELSE serde

\* the object a codec other than AvroSerde parses out of the payload: not nil,
\* and determined by the payload's bytes
Parsed(payload) == [schema |-> 0, data |-> payload.elems]

\* What a codec's DeserializePayload may answer: an error, a payload carrying
\* the codec's label and the parsed object, a payload with an empty label, or
\* a nil payload without an error. With an error every codec returns the zero
\* RecordPayload{}, which is not nil. AvroSerde's answer is computed by
\* AvroDeserializePayload.
OutcomeKinds == {"fail", "ok", "okEmpty", "okNil"}

\* serde.DeserializePayload(record, payloadType) of the i-th codec
SerdeDeserializePayload(serdes, i, oc, svc, rec, pt) ==
    IF serdes[i] = "AvroSerde"
    THEN LET r == AvroDeserializePayload(svc, rec, pt)
         IN  [rp |-> r.rp, err |-> r.err]
    ELSE CASE oc[i] = "ok" ->
                [rp |-> [RecordPayload EXCEPT
                            !.Encoding = Name(serdes[i]),
                            !.NormalizedPayload = payloadFromRecord(rec, pt),
                            !.ParsedPayload = Parsed(payloadFromRecord(rec, pt))],
                 err |-> NoErr]
           [] oc[i] = "okEmpty" -> [rp |-> RecordPayload, err |-> NoErr]
           [] oc[i] = "okNil"   -> [rp |-> NilRP, err |-> NoErr]
           [] OTHER             -> [rp |-> RecordPayload,
                                    err |-> "not " \o Name(serdes[i])]

\* the loop without its break: a later codec that succeeds replaces the result
RECURSIVE TrySerDesWithoutBreak(_, _, _, _, _, _, _)
TrySerDesWithoutBreak(serdes, i, oc, svc, rec, pt, st) ==
    IF i > Len(serdes) THEN st
    ELSE LET r == SerdeDeserializePayload(serdes, i, oc, svc, rec, pt)
         IN  IF r.err = NoErr
             THEN TrySerDesWithoutBreak(serdes, i + 1, oc, svc, rec, pt,
                     [st EXCEPT !.rp = r.rp, !.err = r.err,
                                !.invoked = Append(@, serdes[i])])
             ELSE TrySerDesWithoutBreak(serdes, i + 1, oc, svc, rec, pt,
                     [st EXCEPT !.troubleshooting =
                                    Append(@, [SerdeName |-> Name(serdes[i]),
                                               Message |-> r.err]),
                                !.invoked = Append(@, serdes[i])])

\* the loop keeping only the entry of the last failure
RECURSIVE TrySerDesKeepingLastFailure(_, _, _, _, _, _, _)
TrySerDesKeepingLastFailure(serdes, i, oc, svc, rec, pt, st) ==
    IF i > Len(serdes) THEN st
    ELSE LET r == SerdeDeserializePayload(serdes, i, oc, svc, rec, pt)
         IN  IF r.err = NoErr
             THEN [st EXCEPT !.rp = r.rp, !.err = r.err,
                             !.invoked = Append(@, serdes[i])]
             ELSE TrySerDesKeepingLastFailure(serdes, i + 1, oc, svc, rec, pt,
                     [st EXCEPT !.rp = r.rp, !.err = r.err,
                                !.troubleshooting =
                                    <<[SerdeName |-> Name(serdes[i]),
                                       Message |-> r.err]>>,
                                !.invoked = Append(@, serdes[i])])

\* the loop ending at the first codec that fails
TrySerDesAbortingOnFailure(serdes, i, oc, svc, rec, pt, st) ==
    IF i > Len(serdes) THEN st
    ELSE LET r == SerdeDeserializePayload(serdes, i, oc, svc, rec, pt)
         IN  IF r.err = NoErr
             THEN [st EXCEPT !.rp = r.rp, !.err = r.err,
                             !.invoked = Append(@, serdes[i])]
             ELSE [st EXCEPT !.rp = r.rp, !.err = r.err,
                             !.troubleshooting =
                                 Append(@, [SerdeName |-> Name(serdes[i]),
                                            Message |-> r.err]),
                             !.invoked = Append(@, serdes[i])]

\* the loop of deserializePayload over s.SerDes, from the i-th codec on: st
\* holds rp and err as the previous iteration left them, the troubleshooting
\* slice and the codecs invoked so far
RECURSIVE TrySerDes(_, _, _, _, _, _, _)
TrySerDes(serdes, i, oc, svc, rec, pt, st) ==
    IF i > Len(serdes) THEN st
    ELSE LET r == SerdeDeserializePayload(serdes, i, oc, svc, rec, pt)
         IN  IF r.err = NoErr
             THEN [st EXCEPT !.rp = r.rp, !.err = r.err,
                             !.invoked = Append(@, serdes[i])]
             ELSE TrySerDes(serdes, i + 1, oc, svc, rec, pt,
                     [st EXCEPT !.rp = r.rp, !.err = r.err,
                                !.troubleshooting =
                                    Append(@, [SerdeName |-> Name(serdes[i]),
                                               Message |-> r.err]),
                                !.invoked = Append(@, serdes[i])])

\* the result for an empty payload (len(payload) == 0)
emptyPayloadIsNullAlways(payload, originalPayload) ==
    [RecordPayload EXCEPT !.OriginalPayload = originalPayload,
                          !.IsPayloadNull = TRUE,
                          !.PayloadSizeBytes = 0,
                          !.Encoding = PayloadEncodingNone]

emptyPayload(payload, originalPayload) ==
    [RecordPayload EXCEPT !.OriginalPayload = originalPayload,
                          !.IsPayloadNull = payload.isNil,
                          !.PayloadSizeBytes = 0,
                          !.Encoding = PayloadEncodingNone]

\* rp == nil || err != nil || (rp != nil && rp.Encoding == ""), for the state t
\* the loop ended in
consideredBinary(t) ==
    t.rp.isNil \/ t.err # NoErr \/ t.rp.Encoding = ""

\* addTS, after the binary branch
addTSOnlyOnRequest(binary, o) == o.Troubleshoot

addTSAlways(binary, o) == TRUE

addTS(binary, o) ==
    IF binary THEN TRUE ELSE o.Troubleshoot

\* len(payload) > opts.MaxPayloadSize
tooLargeFromLimitOn(payload, o) == len(payload) >= o.MaxPayloadSize

tooLarge(payload, o) == len(payload) > o.MaxPayloadSize

\* Service.deserializePayload: the returned *RecordPayload, with the codecs
\* it invoked
deserializePayload(serdes, oc, svc, rec, pt, o) ==
    LET payload == payloadFromRecord(rec, pt)
        originalPayload == IF o.IncludeRawData THEN payload ELSE NilSlice
    IN  IF len(payload) = 0
        THEN [rp |-> emptyPayload(payload, originalPayload), invoked |-> <<>>]
        ELSE
        \* t is the state the loop ends in
        CHOOSE out \in
          { LET binary == consideredBinary(t)
                rp1 == IF binary
                       THEN [RecordPayload EXCEPT !.Encoding = PayloadEncodingBinary]
                       ELSE t.rp
                rp2 == [rp1 EXCEPT !.PayloadSizeBytes = len(payload),
                                   !.IsPayloadNull = payload.isNil]
                rp3 == IF o.IncludeRawData
                       THEN [rp2 EXCEPT !.OriginalPayload = payload]
                       ELSE rp2
                rp4 == IF tooLarge(payload, o)
                       THEN [rp3 EXCEPT !.IsPayloadTooLarge = TRUE,
                                        !.NormalizedPayload = NilSlice]
                       ELSE rp3
                rp5 == IF addTS(binary, o)
                       THEN [rp4 EXCEPT !.Troubleshooting = Slice(t.troubleshooting)]
                       ELSE rp4
            IN  [rp |-> rp5, invoked |-> t.invoked] :
            t \in {TrySerDes(serdes, 1, oc, svc, rec, pt,
                             [rp |-> NilRP, err |-> NoErr, troubleshooting |-> <<>>,
                              invoked |-> <<>>])} } : TRUE

\* the nil *Record
NilRecord == [isNil |-> TRUE, Key |-> NilRP, Value |-> NilRP, offsets |-> FALSE]

\* s.deserializeConsumerOffset(record): the dedicated decoder decodes the
\* record, key and value together, or fails, as oc says
deserializeConsumerOffset(rec, oc) ==
    IF oc = "ok"
    THEN [rec |-> [isNil |-> FALSE,
                   Key |-> [RecordPayload EXCEPT !.Encoding = "consumerOffsets",
                                                 !.PayloadSizeBytes = len(rec.Key)],
                   Value |-> [RecordPayload EXCEPT !.Encoding = "consumerOffsets",
                                                   !.PayloadSizeBytes = len(rec.Value)],
                   offsets |-> TRUE],
          err |-> NoErr]
    ELSE [rec |-> NilRecord, err |-> "not a consumer offset record"]

\* if record.Topic == "__consumer_offsets"
anyTopic(rec) == TRUE

isConsumerOffsets(rec) == rec.Topic = "__consumer_offsets"

\* if opts.MaxPayloadSize <= 0 { opts.MaxPayloadSize = defaultMaxPayloadSize }
defaultsOnZeroOnly(o) ==
    IF o.MaxPayloadSize = 0
    THEN [o EXCEPT !.MaxPayloadSize = defaultMaxPayloadSize]
    ELSE o

defaults(o) ==
    IF o.MaxPayloadSize <= 0
    THEN [o EXCEPT !.MaxPayloadSize = defaultMaxPayloadSize]
    ELSE o

\* one deserializePayload call as DeserializeRecord makes it
PayloadCall(pt, o) ==
    [fn |-> "deserializePayload", payloadType |-> pt,
     MaxPayloadSize |-> o.MaxPayloadSize]

OffsetCall == [fn |-> "deserializeConsumerOffset", payloadType |-> "",
               MaxPayloadSize |-> 0]

\* Service.DeserializeRecord: the returned *Record, with the calls it made to
\* deserializeConsumerOffset and deserializePayload; the headers are left out
DeserializeRecord(serdes, oc, svc, rec, callerOpts, offOc) ==
    CHOOSE out \in
      { LET isOffsets == isConsumerOffsets(rec)
            first == IF isOffsets THEN <<OffsetCall>> ELSE <<>>
        IN  IF isOffsets /\ deserializeConsumerOffset(rec, offOc).err = NoErr
            THEN [rec |-> deserializeConsumerOffset(rec, offOc).rec, calls |-> first]
            ELSE CHOOSE res \in
                   { [rec |-> [isNil |-> FALSE, Key |-> key.rp, Value |-> val.rp,
                               offsets |-> FALSE],
                      calls |-> first \o <<PayloadCall(PayloadTypeKey, o),
                                           PayloadCall(PayloadTypeValue, o)>>] :
                     key \in {deserializePayload(serdes, oc, svc, rec, PayloadTypeKey, o)},
                     val \in {deserializePayload(serdes, oc, svc, rec, PayloadTypeValue, o)} } :
                   TRUE :
        o \in {defaults(callerOpts)} } : TRUE

\* WithTopic(topic): the topic-derived SerdeOpt
WithTopic(topic) == <<"WithTopic", topic>>

\* the nil *RecordPayloadSerializeResult and the zero RecordPayloadSerializeResult
NilSerializeResult ==
    [isNil |-> TRUE, Encoding |-> "", Payload |-> NilSlice, Troubleshooting |-> NilSlice]
RecordPayloadSerializeResult == [NilSerializeResult EXCEPT !.isNil = FALSE]

\* serde.SerializeObject(payload, payloadType, options...): it encodes or fails,
\* as oc says for that side
SerializeObject(serde, obj, pt, options, oc) ==
    IF oc[pt] = "ok"
    THEN [bytes |-> Slice(<<obj>>), err |-> NoErr]
    ELSE [bytes |-> NilSlice, err |-> "cannot serialize as " \o Name(serde)]

\* one of the two loops of SerializeRecord over s.SerDes, from the i-th codec
\* on; st holds found, err, the side's result, its troubleshooting and the
\* SerializeObject calls made so far
RECURSIVE SerializeSide(_, _, _, _, _, _, _)
SerializeSide(serdes, i, side, pt, options, oc, st) ==
    IF i > Len(serdes) THEN st
    ELSE IF side.Encoding # Name(serdes[i])
    THEN SerializeSide(serdes, i + 1, side, pt, options, oc, st)
    ELSE LET r == SerializeObject(serdes[i], side.Payload, pt, options, oc)
             calls == Append(st.calls, [serde |-> serdes[i], payloadType |-> pt,
                                        options |-> options])
         IN  IF r.err = NoErr
             THEN [st EXCEPT !.found = TRUE, !.err = NoErr,
                             !.result.Encoding = Name(serdes[i]),
                             !.result.Payload = r.bytes,
                             !.calls = calls]
             ELSE SerializeSide(serdes, i + 1, side, pt, options, oc,
                     [st EXCEPT !.found = TRUE, !.err = r.err,
                                !.ts = Append(st.ts, [SerdeName |-> Name(serdes[i]),
                                                      Message |-> r.err]),
                                !.calls = calls])

\* if err != nil { return &sr, err } after the key side
returnsAfterKey(keyErr) == keyErr # NoErr

\* if input.Topic != "" { options = append(options, WithTopic(input.Topic)) }
topicOptionFirst(options, topic) ==
    IF topic # "" THEN <<WithTopic(topic)>> \o options ELSE options

topicOption(options, topic) ==
    IF topic # "" THEN Append(options, WithTopic(topic)) ELSE options

\* if !found { err = fmt.Errorf("invalid encoding for <what>: %s", encoding) }
sideErr(found, err, what, encoding) ==
    IF ~found
    THEN "invalid encoding for " \o what \o ": " \o encoding
    ELSE err

\* Service.SerializeRecord: the returned (*SerializeOutput, error), with the
\* SerializeObject calls it made
SerializeRecord(serdes, in, oc) ==
    LET keyOptions == topicOption(in.Key.Options, in.Topic)
        k == SerializeSide(serdes, 1, in.Key, PayloadTypeKey, keyOptions, oc,
                [found |-> FALSE, err |-> NoErr, result |-> RecordPayloadSerializeResult,
                 ts |-> <<>>, calls |-> <<>>])
        keySerResult == [k.result EXCEPT !.Troubleshooting = Slice(k.ts)]
        keyErr == sideErr(k.found, k.err, "key", in.Key.Encoding)
    IN  IF returnsAfterKey(keyErr)
        THEN [sr |-> [isNil |-> FALSE, Key |-> keySerResult,
                      Value |-> NilSerializeResult],
              err |-> keyErr, calls |-> k.calls]
        ELSE
        LET valueOptions == topicOption(in.Value.Options, in.Topic)
            v == SerializeSide(serdes, 1, in.Value, PayloadTypeValue, valueOptions, oc,
                    [found |-> FALSE, err |-> keyErr, result |-> RecordPayloadSerializeResult,
                     ts |-> <<>>, calls |-> k.calls])
            valueSerResult == [v.result EXCEPT !.Troubleshooting = Slice(v.ts)]
            valueErr == sideErr(v.found, v.err, "value", in.Value.Encoding)
        IN  [sr |-> [isNil |-> FALSE, Key |-> keySerResult,
                      Value |-> valueSerResult],
             err |-> valueErr, calls |-> v.calls]

-----------------------------------------------------------------------------
(* Client (client.go): one request to the registry and its resty response *)

\* Go errors of the client: nil, a *RestError (code and message), or an error
\* made by fmt.Errorf: msg names the operation that made it, code is the status
\* code it prints, 0 when it wraps a transport error instead
NilError == [kind |-> "nil", code |-> 0, msg |-> ""]
RestError(code, message) == [kind |-> "RestError", code |-> code, msg |-> message]
Errorf(msg, status) == [kind |-> "error", code |-> status, msg |-> msg]

\* res.Error() when the response carried no body resty could parse as a RestError
NilRestError == [isNil |-> TRUE, ErrorCode |-> 0, Message |-> ""]

CodeSubjectNotFound == 40401
StatusNotFound == 404

\* the object given to SetResult, before resty fills it: resty fills it only
\* from a response with a success status
ZeroBody ==
    [Subject |-> 0, Subjects |-> NilSlice, Schemas |-> NilSlice, Type |-> "",
     Compatibility |-> ""]

\* res.IsError(): the status code is above 399
IsError(res) == res.status > 399

\* a nil result, and a pointer to a result
NilResult == [isNil |-> TRUE, val |-> ZeroBody]
Result(v) == [isNil |-> FALSE, val |-> v]

\* the checks most operations make on (res, err) before they read the result:
\* the error to return, NilError when the request passed them
requestError(res, what) ==
    IF res.transport THEN Errorf(what, 0)
    ELSE IF IsError(res)
    THEN IF res.restErr.isNil
         THEN Errorf(what, res.status)
         ELSE RestError(res.restErr.ErrorCode, res.restErr.Message)
    ELSE NilError

\* an operation that returns the parsed result once requestError passed
parsedOrError(res, what) ==
    LET e == requestError(res, what)
    IN  IF e # NilError
        THEN [result |-> NilResult, err |-> e]
        ELSE [result |-> Result(res.body), err |-> NilError]

GetSchemaByID(res) == parsedOrError(res, "get schema by id request failed")

\* GetSchemaBySubject returning the type tag as the registry sent it
GetSchemaBySubjectTypeAsSent(res) ==
    parsedOrError(res, "get schema by subject request failed")

GetSchemaBySubject(res) ==
    LET e == requestError(res, "get schema by subject request failed")
    IN  IF e # NilError
        THEN [result |-> NilResult, err |-> e]
        ELSE [result |-> Result(IF res.body.Type = ""
                                THEN [res.body EXCEPT !.Type = "AVRO"]
                                ELSE res.body),
              err |-> NilError]

\* GetSubjects checks the transport error only: with an error status it reads
\* the result object, which resty left as it was handed to SetResult
GetSubjects(res) ==
    IF res.transport
    THEN [result |-> NilResult, err |-> Errorf("get subjects request failed", 0)]
    ELSE [result |-> Result(res.body), err |-> NilError]

GetSubjectVersions(res) == parsedOrError(res, "get subject versions request failed")

GetMode(res) == parsedOrError(res, "get mode request failed")

GetConfig(res) == parsedOrError(res, "get config failed")

\* GetSubjectConfig returning the subject-not-found error like any other
GetSubjectConfigWithoutDefault(res) ==
    parsedOrError(res, "get config for subject failed")

GetSubjectConfig(res) ==
    LET e == requestError(res, "get config for subject failed")
    IN  IF e.kind = "RestError" /\ e.code = CodeSubjectNotFound
        THEN [result |-> Result([ZeroBody EXCEPT !.Compatibility = "DEFAULT"]),
              err |-> NilError]
        ELSE IF e # NilError
        THEN [result |-> NilResult, err |-> e]
        ELSE [result |-> Result(res.body), err |-> NilError]

DeleteSubject(res) == parsedOrError(res, "delete subject failed")

DeleteSubjectVersion(res) == parsedOrError(res, "delete subject version failed")

GetSchemaTypes(res) == parsedOrError(res, "get schema types failed")

CreateSchema(res) == parsedOrError(res, "create schema failed")

\* the responses a request may get: a transport failure, a success, or an
\* error status with or without a body resty parsed as a RestError
TransportFailure ==
    [transport |-> TRUE, status |-> 0, restErr |-> NilRestError, body |-> ZeroBody]
Success(b) ==
    [transport |-> FALSE, status |-> 200, restErr |-> NilRestError, body |-> b]
ErrorStatus(status, restErr) ==
    [transport |-> FALSE, status |-> status, restErr |-> restErr, body |-> ZeroBody]

RestErrors ==
    {NilRestError} \cup
    {[isNil |-> FALSE, ErrorCode |-> c, Message |-> "rejected"] :
        c \in {CodeSubjectNotFound, 50001}}

ErrorResponses ==
    {ErrorStatus(st, e) : st \in {StatusNotFound, 500},
                          e \in RestErrors}

-----------------------------------------------------------------------------
(* The values the calls are made with *)

\* all byte slices of at most n bytes over the byte values bs, and nil
ByteSlices(bs, n) ==
    {NilSlice} \cup {Slice(e) : e \in UNION {[1..k -> bs] : k \in 0..n}}

\* payloads of the dispatch engine: absent, empty, too short for a frame, a
\* two bytes, a frame carrying schema identifier 7, and six bytes with a wrong
\* magic byte
SamplePayloads ==
    {NilSlice, Slice(<<>>), Slice(<<7>>), Slice(<<7, 7>>),
     Slice(<<0, 0, 0, 0, 7, 1>>), Slice(<<7, 0, 0, 0, 7, 1>>)}

\* six byte payloads whose identifier bytes are 0 or 127 each, with the
\* magic byte and without
HighFrames ==
    {Slice(<<m, b1, b2, b3, b4, d>>) :
        m \in {0, 7}, b1 \in {0, 127}, b2 \in {0, 127}, b3 \in {0, 127},
        b4 \in {0, 127}, d \in {1, 127}}

\* what the other side of the record holds
OtherPayloads == {NilSlice, Slice(<<0, 0, 0, 0, 7, 1>>)}

\* the record whose pt side is p and whose other side is q
RecordOf(pt, p, q, topic) ==
    IF pt = PayloadTypeKey
    THEN [Key |-> p, Value |-> q, Topic |-> topic]
    ELSE [Key |-> q, Value |-> p, Topic |-> topic]

\* DeserializeRecord hands deserializePayload a positive MaxPayloadSize
Options ==
    {[MaxPayloadSize |-> m, Troubleshoot |-> t, IncludeRawData |-> r] :
        m \in {2, defaultMaxPayloadSize}, t \in BOOLEAN, r \in BOOLEAN}

\* the answers of the codecs outside src/: all codecs before first fail, the
\* codec at first succeeds in one of the three ways, the codecs after it all
\* fail or all succeed; first = Len(serdes) + 1 means that none succeeds
Outcomes(serdes) ==
    {[k \in 1..Len(serdes) |->
        IF serdes[k] = "AvroSerde" THEN "computed"
        ELSE IF k < first THEN "fail"
        ELSE IF k = first THEN kind
        ELSE later] :
            first \in 1..(Len(serdes) + 1),
            kind \in {"ok", "okEmpty", "okNil"},
            later \in {"fail", "ok"}}

\* the schema service of AvroSerde: absent or present, the identifiers the
\* registry resolves, and whether the body decodes against the schema
SchemaServices(ids) ==
    {[configured |-> c, known |-> k, decodes |-> d] :
        c \in BOOLEAN, k \in SUBSET ids, d \in BOOLEAN}

NoSchemaService == [configured |-> FALSE, known |-> {}, decodes |-> FALSE]

NoAvroRet ==
    [rp |-> RecordPayload, err |-> NoErr, resolverCalls |-> <<>>, decoderCalls |-> <<>>]

CallerOpt == <<"CallerOpt", "x">>

SerializeSides ==
    {[Encoding |-> e, Payload |-> "obj", Options |-> o] :
        e \in {"JSONSerde", payloadEncodingAvro, "bogus"},
        o \in {<<>>, <<CallerOpt>>}}

SerializeInputs ==
    {[Topic |-> t, Key |-> k, Value |-> v] :
        t \in {"", "topic"}, k \in SerializeSides, v \in SerializeSides}

NoSerializeInput ==
    [Topic |-> "", Key |-> [Encoding |-> "", Payload |-> "", Options |-> <<>>],
     Value |-> [Encoding |-> "", Payload |-> "", Options |-> <<>>]]

NoSerializeRet ==
    [sr |-> [isNil |-> TRUE, Key |-> NilSerializeResult,
             Value |-> NilSerializeResult],
     err |-> NoErr, calls |-> <<>>]

ClientOps ==
    {"GetSchemaByID", "GetSchemaBySubject", "GetSubjects", "GetSubjectVersions",
     "GetMode", "GetConfig", "GetSubjectConfig", "DeleteSubject",
     "DeleteSubjectVersion", "GetSchemaTypes", "CreateSchema"}

\* the responses to one request of the client
Responses ==
    {TransportFailure} \cup ErrorResponses \cup
    {Success([ZeroBody EXCEPT !.Subject = 1, !.Subjects = Slice(<<1>>),
                              !.Type = t, !.Compatibility = "FULL"]) :
        t \in {"", "PROTOBUF"}}

\* the options DeserializeRecord is called with: MaxPayloadSize negative, zero,
\* positive and small, positive and the default
RecordOptions ==
    {[MaxPayloadSize |-> m, Troubleshoot |-> t, IncludeRawData |-> FALSE] :
        m \in {-1, 0, 1, defaultMaxPayloadSize}, t \in BOOLEAN}

\* the records DeserializeRecord is called with
RecordPayloads == {NilSlice, Slice(<<7>>), Slice(<<0, 0, 0, 0, 7, 1>>)}
Records ==
    {[Key |-> k, Value |-> v, Topic |-> t] :
        k \in RecordPayloads, v \in RecordPayloads,
        t \in {"topic", "__consumer_offsets"}}

NoRecordRet == [rec |-> NilRecord, calls |-> <<>>]

NoResponse == TransportFailure
NoRet == [result |-> NilResult, err |-> NilError]
NoSchemasRet == [schemas |-> NilSlice, err |-> NilError]

-----------------------------------------------------------------------------
(* Initial states: each specification draws the arguments of its calls and  *)
(* leaves the variables of the other operations idle                        *)

IdleDeserialize ==
    /\ opts = [MaxPayloadSize |-> defaultMaxPayloadSize, Troubleshoot |-> FALSE,
               IncludeRawData |-> FALSE]
    /\ serdeOutcome = <<>>
    /\ rp = NilRP
    /\ invoked = <<>>

IdleRecord ==
    /\ record = [Key |-> NilSlice, Value |-> NilSlice, Topic |-> ""]
    /\ payloadType = PayloadTypeKey
    /\ schemaSvc = NoSchemaService

IdleAvro == avroRet = NoAvroRet

\* the progress message the task is building, before it has read anything
NoProgressMessage == [MessagesConsumed |-> 0, BytesConsumed |-> 0]

\* the sizes OnMessageConsumed is called with
Sizes == {0, 2}

IdleReporter ==
    /\ reporter = [pc |-> "idle", filter |-> "", msg |-> NoProgressMessage]
    /\ ctxDone = FALSE
    /\ messagesConsumed = 0
    /\ bytesConsumed = 0
    /\ stream = <<>>
    /\ consumers = <<>>

IdleDeserializeRecord ==
    /\ offsetOutcome = "fail"
    /\ recRet = NoRecordRet

IdleSerialize ==
    /\ input = NoSerializeInput
    /\ serOutcome = [pt \in PayloadTypes |-> "fail"]
    /\ serRet = NoSerializeRet

IdleClient ==
    /\ op = "none"
    /\ response = NoResponse
    /\ ret = NoRet

IdleFanout ==
    /\ pc = "idle"
    /\ subjects = <<>>
    /\ failing = {}
    /\ task = <<>>
    /\ ch = <<>>
    /\ chCap = 0
    /\ received = <<>>
    /\ schemas = <<>>
    /\ gsRet = NoSchemasRet
    /\ requests = <<>>

InitPayload ==
    /\ SerDes = NewService
    /\ phase = "input"
    /\ payloadType \in PayloadTypes
    /\ \E p \in SamplePayloads, q \in OtherPayloads :
          record = RecordOf(payloadType, p, q, "topic")
    /\ opts \in Options
    /\ serdeOutcome \in Outcomes(SerDes)
    /\ schemaSvc \in {svc \in SchemaServices({7}) :
                        svc.configured \/ svc = NoSchemaService}
    /\ rp = NilRP
    /\ invoked = <<>>
    /\ IdleAvro /\ IdleSerialize /\ IdleClient /\ IdleFanout
    /\ IdleDeserializeRecord
    /\ IdleReporter

InitAvro ==
    /\ SerDes = NewService
    /\ phase = "input"
    /\ payloadType \in PayloadTypes
    /\ \E p \in ByteSlices({0, 7}, MaxPayloadLen) \cup HighFrames, q \in OtherPayloads :
          record = RecordOf(payloadType, p, q, "topic")
    /\ schemaSvc \in SchemaServices({7, 1792})
    /\ avroRet = NoAvroRet
    /\ IdleDeserialize /\ IdleSerialize /\ IdleClient /\ IdleFanout
    /\ IdleDeserializeRecord
    /\ IdleReporter

InitSerialize ==
    /\ SerDes = NewService
    /\ phase = "input"
    /\ input \in SerializeInputs
    /\ serOutcome \in [PayloadTypes -> {"ok", "fail"}]
    /\ serRet = NoSerializeRet
    /\ IdleRecord /\ IdleDeserialize /\ IdleAvro /\ IdleClient /\ IdleFanout
    /\ IdleDeserializeRecord
    /\ IdleReporter

InitClient ==
    /\ SerDes = NewService
    /\ phase = "input"
    /\ op \in ClientOps
    /\ response \in Responses
    /\ ret = NoRet
    /\ IdleRecord /\ IdleDeserialize /\ IdleAvro /\ IdleSerialize /\ IdleFanout
    /\ IdleDeserializeRecord
    /\ IdleReporter

InitRecord ==
    /\ SerDes = NewService
    /\ phase = "input"
    /\ record \in Records
    /\ payloadType = PayloadTypeKey
    /\ opts \in RecordOptions
    /\ serdeOutcome \in Outcomes(SerDes)
    /\ schemaSvc \in {NoSchemaService,
                      [configured |-> TRUE, known |-> {7}, decodes |-> TRUE]}
    /\ offsetOutcome \in {"ok", "fail"}
    /\ rp = NilRP
    /\ invoked = <<>>
    /\ recRet = NoRecordRet
    /\ IdleAvro /\ IdleSerialize /\ IdleClient /\ IdleFanout
    /\ IdleReporter

\* a new streamProgressReporter, with or without a search filter in its
\* request, and the OnMessageConsumed calls that are going to be made
InitReporter ==
    /\ SerDes = NewService
    /\ phase = "input"
    /\ reporter \in {[pc |-> "start", filter |-> f, msg |-> NoProgressMessage] :
                        f \in {"", "code"}}
    /\ ctxDone = FALSE
    /\ messagesConsumed = 0
    /\ bytesConsumed = 0
    /\ stream = <<>>
    /\ consumers \in [1..MaxCalls -> {[pc |-> "addMessages", size |-> z] : z \in Sizes}]
    /\ IdleRecord /\ IdleDeserialize /\ IdleAvro /\ IdleSerialize /\ IdleClient
    /\ IdleFanout /\ IdleDeserializeRecord

InitSchemas ==
    /\ SerDes = NewService
    /\ phase = "input"
    /\ pc = "start"
    /\ subjects = <<>>
    /\ failing = {}
    /\ task = <<>>
    /\ ch = <<>>
    /\ chCap = 0
    /\ received = <<>>
    /\ schemas = <<>>
    /\ gsRet = NoSchemasRet
    /\ requests = <<>>
    /\ IdleRecord /\ IdleDeserialize /\ IdleAvro /\ IdleSerialize /\ IdleClient
    /\ IdleDeserializeRecord
    /\ IdleReporter

-----------------------------------------------------------------------------
(* Actions: each is one call, from its arguments to its return; the steps   *)
(* of GetSchemasIndividually and of its goroutines are actions of their own *)

\* s.deserializePayload(record, payloadType, &opts)
DeserializePayload ==
    /\ phase = "input"
    /\ \E r \in {deserializePayload(SerDes, serdeOutcome, schemaSvc, record,
                                      payloadType, opts)} :
          /\ rp' = r.rp
          /\ invoked' = r.invoked
    /\ phase' = "done"
    /\ UNCHANGED <<SerDes, record, payloadType, opts, serdeOutcome, schemaSvc>>
    /\ UNCHANGED <<avroVars, serializeVars, clientVars, fanoutVars, recordVars, reporterVars>>

\* s.DeserializeRecord(record, opts)
DeserializeRec ==
    /\ phase = "input"
    /\ \E r \in {DeserializeRecord(SerDes, serdeOutcome, schemaSvc, record, opts,
                                    offsetOutcome)} :
          recRet' = r
    /\ phase' = "done"
    /\ UNCHANGED <<SerDes, deserializeVars, offsetOutcome>>
    /\ UNCHANGED <<avroVars, serializeVars, clientVars, fanoutVars, reporterVars>>

\* AvroSerde{SchemaService}.DeserializePayload(record, payloadType)
AvroDeserialize ==
    /\ phase = "input"
    /\ avroRet' = AvroDeserializePayload(schemaSvc, record, payloadType)
    /\ phase' = "done"
    /\ UNCHANGED <<SerDes, deserializeVars, serializeVars, clientVars, fanoutVars,
                   recordVars, reporterVars>>

\* s.SerializeRecord(input)
Serialize ==
    /\ phase = "input"
    /\ serRet' = SerializeRecord(SerDes, input, serOutcome)
    /\ phase' = "done"
    /\ UNCHANGED <<SerDes, input, serOutcome>>
    /\ UNCHANGED <<deserializeVars, avroVars, clientVars, fanoutVars, recordVars, reporterVars>>

\* one call of a client operation, answered with response
Call(name, returned) ==
    /\ phase = "input"
    /\ op = name
    /\ ret' = returned
    /\ phase' = "done"
    /\ UNCHANGED <<SerDes, op, response>>
    /\ UNCHANGED <<deserializeVars, avroVars, serializeVars, fanoutVars, recordVars, reporterVars>>

CallGetSchemaByID == Call("GetSchemaByID", GetSchemaByID(response))
CallGetSchemaBySubject == Call("GetSchemaBySubject", GetSchemaBySubject(response))
CallGetSubjects == Call("GetSubjects", GetSubjects(response))
CallGetSubjectVersions == Call("GetSubjectVersions", GetSubjectVersions(response))
CallGetMode == Call("GetMode", GetMode(response))
CallGetConfig == Call("GetConfig", GetConfig(response))
CallGetSubjectConfig == Call("GetSubjectConfig", GetSubjectConfig(response))
CallDeleteSubject == Call("DeleteSubject", DeleteSubject(response))
CallDeleteSubjectVersion == Call("DeleteSubjectVersion", DeleteSubjectVersion(response))
CallGetSchemaTypes == Call("GetSchemaTypes", GetSchemaTypes(response))
CallCreateSchema == Call("CreateSchema", CreateSchema(response))

\* the chRes a goroutine sends, before it has one
NoChRes == [schemaRes |-> NilResult, err |-> NilError]

\* the responses to GET /schemas
BulkResponses ==
    {TransportFailure} \cup ErrorResponses \cup
    {Success([ZeroBody EXCEPT !.Schemas = Slice(<<1, 2>>)])}

\* the responses to GET /subjects: the registry lists the subjects 1..n
SubjectsResponses ==
    {TransportFailure, ErrorStatus(500, NilRestError)} \cup
    {Success([ZeroBody EXCEPT !.Subjects = Slice([k \in 1..n |-> k])]) :
        n \in 0..MaxSubjects}

\* the responses to GET /subjects/{subject}/versions/latest
LatestResponses(subject, fails) ==
    IF fails
    THEN {TransportFailure,
          ErrorStatus(StatusNotFound,
                      [isNil |-> FALSE, ErrorCode |-> CodeSubjectNotFound,
                       Message |-> "rejected"])}
    ELSE {Success([ZeroBody EXCEPT !.Subject = subject])}

\* a request as issued: its path, the subject it is about (0: none) and how
\* it was answered
Request(path, subject, res) ==
    [path |-> path, subject |-> subject, transport |-> res.transport,
     status |-> res.status]

\* GetSchemas or GetSchemasIndividually returns (result, e) at one of their
\* return statements: site names it
ReturnSites == {"bulkFailed", "bulkOK", "subjectsFailed", "fetchFailed", "allFetched"}

Return(site, result, e) ==
    /\ gsRet' = [schemas |-> result, err |-> e]
    /\ pc' = site

\* GetSchemas falling back on every error status
GetSchemasFallingBackOnAnyError ==
    /\ pc = "start"
    /\ \E res \in BulkResponses :
          /\ requests' = Append(requests, Request("/schemas", 0, res))
          /\ IF res.transport
             THEN Return("bulkFailed", NilSlice, Errorf("get schemas failed", 0))
             ELSE IF IsError(res)
             THEN pc' = "individually" /\ UNCHANGED gsRet
             ELSE Return("bulkOK", res.body.Schemas, NilError)
    /\ UNCHANGED <<subjects, failing, task, ch, chCap, received, schemas>>
    /\ UNCHANGED <<SerDes, phase, deserializeVars, avroVars, serializeVars, clientVars,
                   recordVars, reporterVars>>

\* c.GetSchemas(ctx, showSoftDeleted), up to its return or its call of
\* GetSchemasIndividually
GetSchemas ==
    /\ pc = "start"
    /\ \E res \in BulkResponses :
          /\ requests' = Append(requests, Request("/schemas", 0, res))
          /\ IF res.transport
             THEN Return("bulkFailed", NilSlice, Errorf("get schemas failed", 0))
             ELSE IF res.status = StatusNotFound
             THEN pc' = "individually" /\ UNCHANGED gsRet
             ELSE IF IsError(res)
             THEN Return("bulkFailed", NilSlice,
                         IF res.restErr.isNil
                         THEN Errorf("get schemas failed", res.status)
                         ELSE RestError(res.restErr.ErrorCode, res.restErr.Message))
             ELSE Return("bulkOK", res.body.Schemas, NilError)
    /\ UNCHANGED <<subjects, failing, task, ch, chCap, received, schemas>>
    /\ UNCHANGED <<SerDes, phase, deserializeVars, avroVars, serializeVars, clientVars,
                   recordVars, reporterVars>>

\* a caller calls c.GetSchemasIndividually(ctx, showSoftDeleted) itself
GetSchemasIndividually ==
    /\ pc = "start"
    /\ pc' = "individually"
    /\ UNCHANGED <<subjects, failing, task, ch, chCap, received, schemas, gsRet>>
    /\ UNCHANGED requests
    /\ UNCHANGED <<SerDes, phase, deserializeVars, avroVars, serializeVars, clientVars,
                   recordVars, reporterVars>>

\* GetSchemasIndividually: c.GetSubjects and make(chan chRes, len(subjects));
\* the registry fails the "latest" fetch of the subjects in f
ListSubjects ==
    /\ pc = "individually"
    /\ \E res \in SubjectsResponses :
          \E r \in {GetSubjects(res)} :
             /\ requests' = Append(requests, Request("/subjects", 0, res))
             /\ IF r.err # NilError
                THEN /\ Return("subjectsFailed", NilSlice,
                               Errorf("failed to get subjects to fetch schemas for", 0))
                     /\ UNCHANGED <<subjects, failing, task, chCap>>
                ELSE /\ subjects' = r.result.val.Subjects.elems
                     /\ chCap' = Len(subjects')
                     /\ task' = [k \in 1..Len(subjects') |->
                                   [pc |-> "notStarted", res |-> NoChRes]]
                     /\ failing' \in SUBSET {subjects'[k] : k \in 1..Len(subjects')}
                     /\ pc' = IF Len(subjects') = 0 THEN "collect" ELSE "launch"
                     /\ UNCHANGED gsRet
    /\ UNCHANGED <<ch, received, schemas>>
    /\ UNCHANGED <<SerDes, phase, deserializeVars, avroVars, serializeVars, clientVars,
                   recordVars, reporterVars>>

\* the range loop leaving the last subject without a goroutine
LaunchAllButLast ==
    /\ pc = "launch"
    /\ \E k \in 1..Len(subjects) :
          /\ task[k].pc = "notStarted"
          /\ \A j \in 1..(k - 1) : task[j].pc # "notStarted"
          /\ task' = IF k = Len(subjects) THEN task
                     ELSE [task EXCEPT ![k].pc = "fetching"]
          /\ pc' = IF k = Len(subjects) THEN "collect" ELSE "launch"
    /\ UNCHANGED <<subjects, failing, ch, chCap, received, schemas, gsRet>>
    /\ UNCHANGED requests
    /\ UNCHANGED <<SerDes, phase, deserializeVars, avroVars, serializeVars, clientVars,
                   recordVars, reporterVars>>

\* one iteration of the range loop: go func(s string) {...}(subject)
Launch ==
    /\ pc = "launch"
    /\ \E k \in 1..Len(subjects) :
          /\ task[k].pc = "notStarted"
          /\ \A j \in 1..(k - 1) : task[j].pc # "notStarted"
          /\ task' = [task EXCEPT ![k].pc = "fetching"]
          /\ pc' = IF k = Len(subjects) THEN "collect" ELSE "launch"
    /\ UNCHANGED <<subjects, failing, ch, chCap, received, schemas, gsRet>>
    /\ UNCHANGED requests
    /\ UNCHANGED <<SerDes, phase, deserializeVars, avroVars, serializeVars, clientVars,
                   recordVars, reporterVars>>

\* goroutine k: r, err := c.GetSchemaBySubject(ctx, s, "latest", showSoftDeleted)
Fetch(k) ==
    /\ task[k].pc = "fetching"
    /\ \E res \in LatestResponses(subjects[k], subjects[k] \in failing) :
          \E r \in {GetSchemaBySubject(res)} :
             /\ task' = [task EXCEPT ![k] = [pc |-> "sending",
                                             res |-> [schemaRes |-> r.result,
                                                      err |-> r.err]]]
             /\ requests' = Append(requests,
                                   Request("/subjects/{subjects}/versions/{version}",
                                           subjects[k], res))
    /\ UNCHANGED <<pc, subjects, failing, ch, chCap, received, schemas, gsRet>>
    /\ UNCHANGED <<SerDes, phase, deserializeVars, avroVars, serializeVars, clientVars,
                   recordVars, reporterVars>>

\* goroutine k sending its result and coming back to send it again
SendAgain(k) ==
    /\ task[k].pc = "sending"
    /\ Len(ch) < chCap
    /\ ch' = Append(ch, task[k].res)
    /\ UNCHANGED <<pc, subjects, failing, task, chCap, received, schemas, gsRet>>
    /\ UNCHANGED requests
    /\ UNCHANGED <<SerDes, phase, deserializeVars, avroVars, serializeVars, clientVars,
                   recordVars, reporterVars>>

\* goroutine k: ch <- chRes{...}, which blocks while the buffer is full
Send(k) ==
    /\ task[k].pc = "sending"
    /\ Len(ch) < chCap
    /\ ch' = Append(ch, task[k].res)
    /\ task' = [task EXCEPT ![k].pc = "done"]
    /\ UNCHANGED <<pc, subjects, failing, chCap, received, schemas, gsRet>>
    /\ UNCHANGED requests
    /\ UNCHANGED <<SerDes, phase, deserializeVars, avroVars, serializeVars, clientVars,
                   recordVars, reporterVars>>

\* the receive loop returning what it has when a fetch failed
ReceiveReturningPartial ==
    /\ pc = "collect"
    /\ Len(schemas) < chCap
    /\ ch # <<>>
    /\ ch' = Tail(ch)
    /\ received' = Append(received, Head(ch))
    /\ IF Head(ch).err # NilError
       THEN /\ Return("fetchFailed", Slice(schemas), NilError)
            /\ UNCHANGED schemas
       ELSE /\ schemas' = Append(schemas, Head(ch).schemaRes.val)
            /\ UNCHANGED <<pc, gsRet>>
    /\ UNCHANGED <<subjects, failing, task, chCap>>
    /\ UNCHANGED requests
    /\ UNCHANGED <<SerDes, phase, deserializeVars, avroVars, serializeVars, clientVars,
                   recordVars, reporterVars>>

\* one iteration of the receive loop: res := <-ch, then return or append
Receive ==
    /\ pc = "collect"
    /\ Len(schemas) < chCap
    /\ ch # <<>>
    /\ ch' = Tail(ch)
    /\ received' = Append(received, Head(ch))
    /\ IF Head(ch).err # NilError
       THEN /\ Return("fetchFailed", NilSlice,
                   Errorf("failed to fetch at least one schema", 0))
            /\ UNCHANGED schemas
       ELSE /\ schemas' = Append(schemas, Head(ch).schemaRes.val)
            /\ UNCHANGED <<pc, gsRet>>
    /\ UNCHANGED <<subjects, failing, task, chCap>>
    /\ UNCHANGED requests
    /\ UNCHANGED <<SerDes, phase, deserializeVars, avroVars, serializeVars, clientVars,
                   recordVars, reporterVars>>

\* the receive loop ends (i = cap(ch)): return schemas, nil
ReturnSchemas ==
    /\ pc = "collect"
    /\ Len(schemas) = chCap
    /\ Return("allFetched", Slice(schemas), NilError)
    /\ UNCHANGED <<subjects, failing, task, ch, chCap, received, schemas>>
    /\ UNCHANGED requests
    /\ UNCHANGED <<SerDes, phase, deserializeVars, avroVars, serializeVars, clientVars,
                   recordVars, reporterVars>>

-----------------------------------------------------------------------------
(* streamProgressReporter: the periodic task and the counters *)

others == <<SerDes, phase, deserializeVars, avroVars, serializeVars, clientVars,
            fanoutVars, recordVars>>

\* case <-p.ctx.Done() is ready
neverDone(done) == FALSE

selectDone(done) == done

\* atomic.Int64.Add(delta): the new value
atomicStore(value, delta) == delta

atomicAdd(value, delta) == value + delta

\* p.Start(): without a search filter no task is started
Start ==
    /\ reporter.pc = "start"
    /\ reporter' = [reporter EXCEPT !.pc = IF reporter.filter = ""
                                          THEN "noTask" ELSE "select"]
    /\ UNCHANGED <<ctxDone, messagesConsumed, bytesConsumed, stream, consumers>>
    /\ UNCHANGED others

\* the task's select: return when the context is done, else go on to
\* reportProgress
Select ==
    /\ reporter.pc = "select"
    /\ selectDone(ctxDone) \/ Len(stream) < MaxReports
    /\ reporter' = [reporter EXCEPT !.pc = IF selectDone(ctxDone)
                                          THEN "exited" ELSE "loadMessages"]
    /\ UNCHANGED <<ctxDone, messagesConsumed, bytesConsumed, stream, consumers>>
    /\ UNCHANGED others

\* reportProgress: MessagesConsumed: p.messagesConsumed.Load()
LoadMessages ==
    /\ reporter.pc = "loadMessages"
    /\ reporter' = [reporter EXCEPT !.pc = "loadBytes",
                                    !.msg.MessagesConsumed = messagesConsumed]
    /\ UNCHANGED <<ctxDone, messagesConsumed, bytesConsumed, stream, consumers>>
    /\ UNCHANGED others

\* reportProgress: BytesConsumed: p.bytesConsumed.Load()
LoadBytes ==
    /\ reporter.pc = "loadBytes"
    /\ reporter' = [reporter EXCEPT !.pc = "send",
                                    !.msg.BytesConsumed = bytesConsumed]
    /\ UNCHANGED <<ctxDone, messagesConsumed, bytesConsumed, stream, consumers>>
    /\ UNCHANGED others

\* reportProgress: p.stream.Send(...); afterCancel tells whether the context
\* was done when the message was sent
StreamSend ==
    /\ reporter.pc = "send"
    /\ stream' = Append(stream, [MessagesConsumed |-> reporter.msg.MessagesConsumed,
                                 BytesConsumed |-> reporter.msg.BytesConsumed,
                                 afterCancel |-> ctxDone])
    /\ reporter' = [reporter EXCEPT !.pc = "sleep"]
    /\ UNCHANGED <<ctxDone, messagesConsumed, bytesConsumed, consumers>>
    /\ UNCHANGED others

\* time.Sleep(1 * time.Second) returns
Sleep ==
    /\ reporter.pc = "sleep"
    /\ reporter' = [reporter EXCEPT !.pc = "select"]
    /\ UNCHANGED <<ctxDone, messagesConsumed, bytesConsumed, stream, consumers>>
    /\ UNCHANGED others

\* the context of the reporter is cancelled
Cancel ==
    /\ reporter.pc # "idle"
    /\ ~ctxDone
    /\ ctxDone' = TRUE
    /\ UNCHANGED <<reporter, messagesConsumed, bytesConsumed, stream, consumers>>
    /\ UNCHANGED others

\* OnMessageConsumed(size), call c: p.messagesConsumed.Add(1)
AddMessages(c) ==
    /\ consumers[c].pc = "addMessages"
    /\ messagesConsumed' = atomicAdd(messagesConsumed, 1)
    /\ consumers' = [consumers EXCEPT ![c].pc = "addBytes"]
    /\ UNCHANGED <<reporter, ctxDone, bytesConsumed, stream>>
    /\ UNCHANGED others

\* OnMessageConsumed(size), call c: p.bytesConsumed.Add(size)
AddBytes(c) ==
    /\ consumers[c].pc = "addBytes"
    /\ bytesConsumed' = atomicAdd(bytesConsumed, consumers[c].size)
    /\ consumers' = [consumers EXCEPT ![c].pc = "done"]
    /\ UNCHANGED <<reporter, ctxDone, messagesConsumed, stream>>
    /\ UNCHANGED others

\* the steps of the periodic task
TaskStep == Select \/ LoadMessages \/ LoadBytes \/ StreamSend \/ Sleep

NextPayload == DeserializePayload
NextAvro == AvroDeserialize
NextRecord == DeserializeRec
NextReporter ==
    \/ Start
    \/ Select
    \/ LoadMessages
    \/ LoadBytes
    \/ StreamSend
    \/ Sleep
    \/ Cancel
    \/ \E c \in 1..MaxCalls : AddMessages(c)
    \/ \E c \in 1..MaxCalls : AddBytes(c)
NextSerialize == Serialize
NextClient ==
    \/ CallGetSchemaByID
    \/ CallGetSchemaBySubject
    \/ CallGetSubjects
    \/ CallGetSubjectVersions
    \/ CallGetMode
    \/ CallGetConfig
    \/ CallGetSubjectConfig
    \/ CallDeleteSubject
    \/ CallDeleteSubjectVersion
    \/ CallGetSchemaTypes
    \/ CallCreateSchema

NextSchemas ==
    \/ GetSchemas
    \/ GetSchemasIndividually
    \/ ListSubjects
    \/ Launch
    \/ \E k \in 1..Len(subjects) : Fetch(k)
    \/ \E k \in 1..Len(subjects) : Send(k)
    \/ Receive
    \/ ReturnSchemas

SpecPayload == InitPayload /\ [][NextPayload]_vars
SpecAvro == InitAvro /\ [][NextAvro]_vars
SpecRecord == InitRecord /\ [][NextRecord]_vars
SpecReporter == InitReporter /\ [][NextReporter]_vars /\ WF_vars(TaskStep)
SpecSerialize == InitSerialize /\ [][NextSerialize]_vars
SpecClient == InitClient /\ [][NextClient]_vars
SpecSchemas == InitSchemas /\ [][NextSchemas]_vars

\* GetSchemasIndividually with requests that return and goroutines that are
\* scheduled: the subject listing and every fetch return, the range loop, the
\* sends and the receive loop go on whenever they can
SchemasFairness ==
    /\ WF_vars(ListSubjects)
    /\ WF_vars(Launch)
    /\ \A k \in 1..MaxSubjects : WF_vars(k \in DOMAIN task /\ Fetch(k))
    /\ \A k \in 1..MaxSubjects : WF_vars(k \in DOMAIN task /\ Send(k))
    /\ WF_vars(Receive)
    /\ WF_vars(ReturnSchemas)

SpecSchemasFair == InitSchemas /\ [][NextSchemas]_vars /\ SchemasFairness

-----------------------------------------------------------------------------
(* Properties of deserializePayload (SpecPayload) *)

\* the payload deserializePayload was called on
Payload == payloadFromRecord(record, payloadType)

\* what each codec of the list answers for the record and the payload type
Answers ==
    [k \in 1..Len(SerDes) |->
        SerdeDeserializePayload(SerDes, k, serdeOutcome, schemaSvc, record, payloadType)]

\* the positions of the codecs whose DeserializePayload returns no error
Succeeding == {k \in 1..Len(SerDes) : Answers[k].err = NoErr}

FirstSucceeding == CHOOSE k \in Succeeding : \A j \in Succeeding : k <= j

\* C1 as claimed: for every non-empty payload the returned label is non-empty
\* and, whenever a codec succeeds, it is the label the first succeeding codec
\* reported.
C1_LabelOfFirstSuccess ==
    (phase = "done" /\ len(Payload) > 0) =>
        /\ rp.Encoding # ""
        /\ Succeeding # {} => rp.Encoding = Answers[FirstSucceeding].rp.Encoding

\* C1 as amended: for every non-empty payload the returned label is non-empty;
\* whenever a codec succeeds and the first succeeding codec reported a payload
\* with a non-empty label, the returned label is that one; when it reported no
\* payload or an empty label the returned label is "binary". The label never
\* comes from a codec later in the list.
C1_FirstSuccessWins ==
    (phase = "done" /\ len(Payload) > 0) =>
        /\ rp.Encoding # ""
        /\ Succeeding # {} =>
              LET first == Answers[FirstSucceeding].rp
              IN  IF ~first.isNil /\ first.Encoding # ""
                  THEN rp.Encoding = first.Encoding
                  ELSE rp.Encoding = PayloadEncodingBinary

\* C1's case: the third or a later codec is the first to succeed, the codecs
\* after it would succeed too, and its label is the one returned
C1_Witness ==
    /\ phase = "done"
    /\ len(Payload) > 0
    /\ Succeeding # {}
    /\ FirstSucceeding > 2
    /\ \E j \in Succeeding : j > FirstSucceeding
    /\ rp.Encoding = Name(SerDes[FirstSucceeding])

\* C2: when every codec fails, or the first succeeding codec reports an empty
\* label, the returned encoding is "binary" and the troubleshooting list is
\* attached, whatever opts.Troubleshoot says.
C2_BinaryAlwaysExplained ==
    (/\ phase = "done"
     /\ len(Payload) > 0
     /\ \/ Succeeding = {}
        \/ Answers[FirstSucceeding].rp.Encoding = "") =>
        /\ rp.Encoding = PayloadEncodingBinary
        /\ ~rp.Troubleshooting.isNil

\* C2's case: troubleshooting was not requested, the first codec to succeed
\* reported an empty label after others failed, and the failures are attached
C2_Witness ==
    /\ phase = "done"
    /\ len(Payload) > 0
    /\ ~opts.Troubleshoot
    /\ Succeeding # {}
    /\ FirstSucceeding > 1
    /\ ~Answers[FirstSucceeding].rp.isNil
    /\ Answers[FirstSucceeding].rp.Encoding = ""
    /\ rp.Encoding = PayloadEncodingBinary
    /\ len(rp.Troubleshooting) = FirstSucceeding - 1

\* C9 as claimed: the codec list is none, JSON, JSON-with-schema, XML,
\* Avro-with-schema, Protobuf-with-schema, Protobuf-without-schema,
\* MessagePack, Smile, UTF-8 text, plain text, unsigned-integer, at all times.
C9_SchemaProtobufBeforePlain ==
    SerDes = << "NoneSerde", "JSONSerde", "JSONSchemaSerde", "XMLSerde",
                "AvroSerde", "ProtobufSchemaSerde", "ProtobufSerde",
                "MsgPackSerde", "SmileSerde", "UTF8Serde", "TextSerde",
                "UintSerde" >>

\* C9 as amended: the codec list is none, JSON, JSON-with-schema, XML,
\* Avro-with-schema, Protobuf (ProtobufSerde), Protobuf-with-schema
\* (ProtobufSchemaSerde), MessagePack, Smile, UTF-8 text, plain text,
\* unsigned-integer, and no operation changes it.
C9_CodecOrder ==
    SerDes = << "NoneSerde", "JSONSerde", "JSONSchemaSerde", "XMLSerde",
                "AvroSerde", "ProtobufSerde", "ProtobufSchemaSerde",
                "MsgPackSerde", "SmileSerde", "UTF8Serde", "TextSerde",
                "UintSerde" >>

\* C9's case: a call went through the whole list, in that order
C9_Witness ==
    /\ phase = "done"
    /\ Len(invoked) = 12
    /\ invoked[6] = "ProtobufSerde"
    /\ invoked[7] = "ProtobufSchemaSerde"
    /\ invoked = SerDes

\* C10: on a zero-length payload the result has encoding "none" and size 0,
\* and isPayloadNull tells the absent payload (true) from the empty one (false).
C10_EmptyPayload ==
    (phase = "done" /\ len(Payload) = 0) =>
        /\ rp.Encoding = PayloadEncodingNone
        /\ rp.PayloadSizeBytes = 0
        /\ rp.IsPayloadNull = Payload.isNil

\* C10's case: the payload is present and empty, and is not reported as null
C10_Witness ==
    /\ phase = "done"
    /\ Payload = Slice(<<>>)
    /\ rp.Encoding = PayloadEncodingNone
    /\ ~rp.IsPayloadNull

-----------------------------------------------------------------------------
(* Properties of SerializeRecord (SpecSerialize) *)

\* a codec of the list has the name requested for the side
Found(side) == \E k \in 1..Len(SerDes) : Name(SerDes[k]) = side.Encoding

\* the side fails: no codec has the requested name, or the codec cannot encode
SideFails(side, pt) == ~Found(side) \/ serOutcome[pt] = "fail"

\* the SerializeObject calls made for the payload type
CallsFor(pt) == {k \in 1..Len(serRet.calls) : serRet.calls[k].payloadType = pt}

\* C3: both sides are always attempted; a failure on the key side does not
\* keep the value side from being attempted, and the output carries the result
\* of both sides. SerializeRecord does not do this: it returns right after a
\* failed key side.
C3_BothSidesAttempted ==
    phase = "done" =>
        /\ ~serRet.sr.Key.isNil
        /\ ~serRet.sr.Value.isNil
        /\ Found(input.Value) => CallsFor(PayloadTypeValue) # {}

\* what SerializeRecord does instead: the key side is attempted first and the
\* value side only when the key side succeeded. A failure on the key side makes
\* it return at once with the key side's result and error: the value side is
\* not attempted and the output carries no value result. A failure on the
\* value side leaves the key side's result in the output, which then carries
\* both.
C3_ValueOnlyAfterKey ==
    phase = "done" =>
        /\ ~serRet.sr.Key.isNil
        /\ IF SideFails(input.Key, PayloadTypeKey)
           THEN /\ serRet.err # NoErr
                /\ serRet.sr.Value.isNil
                /\ CallsFor(PayloadTypeValue) = {}
           ELSE /\ ~serRet.sr.Value.isNil
                /\ serRet.sr.Key.Encoding = input.Key.Encoding
                /\ ~serRet.sr.Key.Payload.isNil
                /\ Found(input.Value) <=> Cardinality(CallsFor(PayloadTypeValue)) = 1
                /\ SideFails(input.Value, PayloadTypeValue) <=> serRet.err # NoErr

\* the input on which C3 fails: the key side fails while the value side could
\* have been encoded, and the value side was not attempted
C3_Witness ==
    /\ phase = "done"
    /\ Found(input.Key)
    /\ serOutcome[PayloadTypeKey] = "fail"
    /\ Found(input.Value)
    /\ serOutcome[PayloadTypeValue] = "ok"
    /\ serRet.sr.Value.isNil
    /\ Len(serRet.calls) = 1

-----------------------------------------------------------------------------
(* Properties of GetSchemasIndividually (SpecSchemas) *)

\* GetSchemasIndividually returned from its receive loop
ReturnedFromLoop == pc \in {"fetchFailed", "allFetched"}

\* the entries of the returned list that are of the subject
EntriesOf(subject) ==
    {k \in 1..len(gsRet.schemas) : gsRet.schemas.elems[k].Subject = subject}

\* C4: whatever the order the fetches complete in, if the fetch of at least one
\* subject fails GetSchemasIndividually returns an error and no list, and if
\* all fetches succeed it returns a list with exactly one entry per subject.
C4_AllOrNothing ==
    ReturnedFromLoop =>
        IF failing # {}
        THEN gsRet.err # NilError /\ gsRet.schemas.isNil
        ELSE /\ gsRet.err = NilError
             /\ ~gsRet.schemas.isNil
             /\ len(gsRet.schemas) = Len(subjects)
             /\ \A k \in 1..Len(subjects) :
                   Cardinality(EntriesOf(subjects[k])) = 1

\* C4's case: of three subjects one fails, and its failure arrives after two
\* schemas were received, which the returned result does not hold
C4_Witness ==
    /\ pc = "fetchFailed"
    /\ Len(subjects) = 3
    /\ Cardinality(failing) = 1
    /\ Len(schemas) = 2
    /\ gsRet.schemas.isNil

\* C5: GetSchemasIndividually returns only after it received as many
\* completions as there are subjects, on every return path of the loop, and
\* no task is running when it returns. The code does not do this: it returns
\* from inside the receive loop on the first failed completion.
C5_JoinsOnEveryReturn ==
    ReturnedFromLoop =>
        /\ Len(received) = Len(subjects)
        /\ \A k \in 1..Len(subjects) : task[k].pc = "done"

\* what GetSchemasIndividually does instead: it launches one task per subject
\* before it receives. When it returns the list it has received exactly N
\* completions and no task is running. When a fetch failed it returns on
\* receiving the first failed completion, after between 1 and N completions,
\* all earlier ones successful; tasks may then still be running.
C5_JoinsOnlyOnSuccess ==
    /\ pc \in {"collect", "fetchFailed", "allFetched"} =>
          /\ DOMAIN task = 1..Len(subjects)
          /\ \A k \in 1..Len(subjects) : task[k].pc # "notStarted"
    /\ pc = "allFetched" =>
          /\ Len(received) = Len(subjects)
          /\ \A k \in 1..Len(subjects) : task[k].pc = "done"
    /\ pc = "fetchFailed" =>
          /\ Len(received) \in 1..Len(subjects)
          /\ received[Len(received)].err # NilError
          /\ \A j \in 1..(Len(received) - 1) : received[j].err = NilError

\* the input on which C5 fails: GetSchemasIndividually has returned the error
\* of the first completion while another task has not finished its fetch
C5_Witness ==
    /\ pc = "fetchFailed"
    /\ Len(received) = 1
    /\ Len(subjects) = 3
    /\ \E k \in 1..Len(subjects) : task[k].pc = "fetching"

-----------------------------------------------------------------------------
(* Properties of the client operations (SpecClient) *)

\* the operations C6 names that one request decides
SingleRequestOps ==
    {"GetSchemaByID", "GetSchemaBySubject", "GetSubjects", "GetSubjectVersions",
     "GetMode", "GetConfig", "DeleteSubject", "DeleteSubjectVersion",
     "GetSchemaTypes", "CreateSchema"}

\* C6: a call that fails returns a non-nil error and no result: the RestError
\* of the body when the registry answered an error status with a recognised
\* body, a status error when the body was not recognised, and a wrapped error
\* on a transport failure.
C6_FailingCallReturnsError ==
    (/\ phase = "done"
     /\ op \in SingleRequestOps
     /\ response.transport \/ IsError(response)) =>
        /\ ret.err # NilError
        /\ ret.result.isNil
        /\ response.transport => ret.err.kind = "error"
        /\ (~response.transport /\ response.restErr.isNil) =>
              ret.err.kind = "error" /\ ret.err.code = response.status
        /\ (~response.transport /\ ~response.restErr.isNil) =>
              ret.err = RestError(response.restErr.ErrorCode, response.restErr.Message)

-----------------------------------------------------------------------------
(* Properties of AvroSerde.DeserializePayload (SpecAvro) *)

\* the payload is a frame: more than five bytes, the first of them 0x00
Framed == len(Payload) > 5 /\ Payload.elems[1] = 0

\* the schema identifier the frame carries, and its body
FrameID == BigEndianUint32(SubSeq(Payload.elems, 2, 5))
FrameBody == SubSeq(Payload.elems, 6, len(Payload))

\* C7: for a frame whose identifier the resolver resolves and whose body
\* decodes, DeserializePayload returns no error, the decoded value, the Avro
\* label, and the schema identifier of the frame.
C7_ReturnsSchemaID ==
    (/\ phase = "done"
     /\ schemaSvc.configured
     /\ Framed
     /\ FrameID \in schemaSvc.known
     /\ schemaSvc.decodes) =>
        /\ avroRet.err = NoErr
        /\ avroRet.rp.ParsedPayload = [schema |-> FrameID, data |-> FrameBody]
        /\ avroRet.rp.Encoding = payloadEncodingAvro
        /\ ~avroRet.rp.SchemaID.isNil
        /\ avroRet.rp.SchemaID.val = FrameID

\* C8: a payload of five bytes or less, or whose first byte is not 0x00, gets
\* an error and no call to the resolver; the resolver is called only after the
\* length check and the magic byte check passed.
C8_RejectedBeforeResolver ==
    phase = "done" =>
        /\ ~Framed => avroRet.err # NoErr /\ avroRet.resolverCalls = <<>>
        /\ avroRet.resolverCalls # <<>> => Framed

\* C8's case: six bytes with a wrong magic byte, carrying an identifier the
\* registry knows, are rejected without asking the registry
C8_Witness ==
    /\ phase = "done"
    /\ schemaSvc.configured
    /\ len(Payload) = 6
    /\ Payload.elems[1] # 0
    /\ FrameID \in schemaSvc.known
    /\ avroRet.err = "incorrect magic byte"
    /\ avroRet.resolverCalls = <<>>

-----------------------------------------------------------------------------
(* Further properties of deserializePayload (SpecPayload) *)

\* C11: for every non-empty payload, isPayloadTooLarge is true exactly when the
\* payload is longer than opts.MaxPayloadSize, and then the normalized payload
\* is absent while the encoding label and the size (the payload length) are
\* populated, whichever codec won or none.
C11_TooLargeExactlyAboveLimit ==
    (phase = "done" /\ len(Payload) > 0) =>
        /\ rp.IsPayloadTooLarge <=> len(Payload) > opts.MaxPayloadSize
        /\ rp.PayloadSizeBytes = len(Payload)
        /\ rp.Encoding # ""
        /\ rp.IsPayloadTooLarge => rp.NormalizedPayload.isNil

\* C11's case: a codec won with a normalized payload, the payload is longer
\* than the limit, and the result keeps the label and the size only
C11_Witness ==
    /\ phase = "done"
    /\ len(Payload) = 6
    /\ opts.MaxPayloadSize = 2
    /\ Succeeding # {}
    /\ ~Answers[FirstSucceeding].rp.isNil
    /\ ~Answers[FirstSucceeding].rp.NormalizedPayload.isNil
    /\ rp.IsPayloadTooLarge
    /\ rp.NormalizedPayload.isNil
    /\ rp.Encoding = Name(SerDes[FirstSucceeding])
    /\ rp.PayloadSizeBytes = 6

-----------------------------------------------------------------------------
(* Further properties of SerializeRecord (SpecSerialize) *)

\* the "invalid encoding" error of a side
InvalidEncoding(what, side) == "invalid encoding for " \o what \o ": " \o side.Encoding

\* err is an "invalid encoding" error that names the side's requested encoding
IsInvalidEncodingOf(err, side) ==
    err \in {InvalidEncoding("key", side), InvalidEncoding("value", side)}

\* C12: if no codec has the name requested for a side, key or value,
\* SerializeRecord returns the "invalid encoding" error naming that side's
\* requested encoding, a non-nil output, and calls no SerializeObject for
\* that side. The code does not do this for the value side after a failed key
\* side: it has returned before the value's encoding is looked up.
C12_InvalidEncodingOfEitherSide ==
    phase = "done" =>
        /\ ~Found(input.Key) =>
              /\ IsInvalidEncodingOf(serRet.err, input.Key)
              /\ ~serRet.sr.isNil
              /\ CallsFor(PayloadTypeKey) = {}
        /\ ~Found(input.Value) =>
              /\ IsInvalidEncodingOf(serRet.err, input.Value)
              /\ ~serRet.sr.isNil
              /\ CallsFor(PayloadTypeValue) = {}

\* what SerializeRecord does instead: if no codec has the name requested for
\* the key side, it returns the "invalid encoding for key" error naming the
\* requested encoding; if the key side succeeded and no codec has the name
\* requested for the value side, it returns the "invalid encoding for value"
\* error naming the requested encoding; if the key side failed, the error is
\* the key side's and the value side's encoding is not looked up. In all
\* three cases the output is non-nil and no codec's SerializeObject is called
\* for the side whose encoding no codec has.
C12_InvalidEncodingOfFirstFailingSide ==
    phase = "done" =>
        /\ ~serRet.sr.isNil
        /\ ~Found(input.Key) =>
              /\ serRet.err = InvalidEncoding("key", input.Key)
              /\ CallsFor(PayloadTypeKey) = {}
        /\ ~Found(input.Value) =>
              /\ CallsFor(PayloadTypeValue) = {}
              /\ IF SideFails(input.Key, PayloadTypeKey)
                 THEN /\ serRet.err # NoErr
                      /\ serRet.err # InvalidEncoding("value", input.Value)
                      /\ serRet.sr.Value.isNil
                 ELSE /\ serRet.err = InvalidEncoding("value", input.Value)
                      /\ ~serRet.sr.Key.Payload.isNil

\* the input on which C12 fails: the key's codec fails to encode, no codec has
\* the name requested for the value side, and the error returned is the key's
C12_FailingInput ==
    /\ phase = "done"
    /\ Found(input.Key)
    /\ serOutcome[PayloadTypeKey] = "fail"
    /\ ~Found(input.Value)
    /\ ~IsInvalidEncodingOf(serRet.err, input.Value)
    /\ serRet.sr.Value.isNil
    /\ Len(serRet.calls) = 1

-----------------------------------------------------------------------------
(* Properties of GetSchemas (SpecSchemas) *)

\* GetSchemas was called: the first request is the bulk request
BulkFirst == requests # <<>> /\ requests[1].path = "/schemas"

\* the bulk request was answered with not-found
BulkNotFound == ~requests[1].transport /\ requests[1].status = StatusNotFound

\* C13: GetSchemas issues the bulk request first and once; the subject listing
\* and the per-subject fetches are issued only after a bulk request answered
\* with not-found, the listing before the fetches; on bulk success it returns
\* the bulk list after that one request, and on a transport failure or any
\* other error status it returns an error after that one request.
C13_FallbackOnlyOnNotFound ==
    /\ \A k \in 2..Len(requests) : requests[k].path # "/schemas"
    /\ \A k \in 1..Len(requests) :
          requests[k].path = "/subjects/{subjects}/versions/{version}" =>
             \E j \in 1..(k - 1) : requests[j].path = "/subjects"
    /\ pc \in {"bulkOK", "bulkFailed"} => BulkFirst
    /\ BulkFirst =>
          /\ Len(requests) > 1 => BulkNotFound
          /\ BulkNotFound => pc \notin {"bulkOK", "bulkFailed"}
          /\ (~BulkNotFound /\ ~requests[1].transport /\ requests[1].status < 400) =>
                /\ pc = "bulkOK"
                /\ gsRet.err = NilError
                /\ gsRet.schemas = Slice(<<1, 2>>)
          /\ (~BulkNotFound /\ (requests[1].transport \/ requests[1].status >= 400)) =>
                /\ pc = "bulkFailed"
                /\ gsRet.err # NilError
                /\ gsRet.schemas.isNil

\* C13's case: the bulk request was answered with not-found, then the subjects
\* were listed, then each of the three subjects was fetched, and the list of
\* the three schemas was returned
C13_Witness ==
    /\ pc = "allFetched"
    /\ BulkFirst
    /\ BulkNotFound
    /\ Len(requests) = 5
    /\ requests[2].path = "/subjects"
    /\ \A k \in 3..5 : requests[k].path = "/subjects/{subjects}/versions/{version}"
    /\ len(gsRet.schemas) = 3

-----------------------------------------------------------------------------
(* Further properties of the client operations (SpecClient) *)

\* the registry answered with a structured error whose code is
\* subject-not-found
SubjectNotFound ==
    /\ ~response.transport
    /\ IsError(response)
    /\ ~response.restErr.isNil
    /\ response.restErr.ErrorCode = CodeSubjectNotFound

\* C14: GetSubjectConfig returns Compatibility "DEFAULT" with a nil error when
\* the registry answers with the structured error whose code is
\* subject-not-found, and a non-nil error and no result for every other error
\* response: another structured code, an unrecognised body, a transport
\* failure.
C14_DefaultOnSubjectNotFound ==
    (phase = "done" /\ op = "GetSubjectConfig") =>
        /\ SubjectNotFound =>
              /\ ret.err = NilError
              /\ ~ret.result.isNil
              /\ ret.result.val.Compatibility = "DEFAULT"
        /\ (~SubjectNotFound /\ (response.transport \/ IsError(response))) =>
              /\ ret.err # NilError
              /\ ret.result.isNil

\* C14's case: the registry answered 404 with error code 40401 and the call
\* returned the default level without an error
C14_Witness ==
    /\ phase = "done"
    /\ op = "GetSubjectConfig"
    /\ SubjectNotFound
    /\ response.status = StatusNotFound
    /\ ret.err = NilError
    /\ ret.result.val.Compatibility = "DEFAULT"

\* C15: every schema record GetSchemaBySubject returns without error has a
\* non-empty type tag: the registry's when the response carries one, "AVRO"
\* when it carries none.
C15_TypeNeverEmpty ==
    (phase = "done" /\ op = "GetSchemaBySubject" /\ ret.err = NilError) =>
        /\ ~ret.result.isNil
        /\ ret.result.val.Type # ""
        /\ ret.result.val.Type =
              IF response.body.Type = "" THEN "AVRO" ELSE response.body.Type

\* C15's case: the response carried no type tag and the record says "AVRO"
C15_Witness ==
    /\ phase = "done"
    /\ op = "GetSchemaBySubject"
    /\ ~response.transport
    /\ ~IsError(response)
    /\ response.body.Type = ""
    /\ ret.err = NilError
    /\ ret.result.val.Type = "AVRO"

-----------------------------------------------------------------------------
(* Properties of the codec chain of deserializePayload (SpecPayload) *)

\* the number of codecs the chain tries: up to the first that succeeds, all of
\* them when none does
Tried == IF Succeeding = {} THEN Len(SerDes) ELSE FirstSucceeding

\* the codecs that were tried and failed are the first NumFailed of the list
NumFailed == IF Succeeding = {} THEN Len(SerDes) ELSE FirstSucceeding - 1

\* the troubleshooting entry of the k-th codec
EntryOf(k) == [SerdeName |-> Name(SerDes[k]), Message |-> Answers[k].err]

\* the first succeeding codec reported a payload with a non-empty label
WonWithLabel ==
    /\ Succeeding # {}
    /\ ~Answers[FirstSucceeding].rp.isNil
    /\ Answers[FirstSucceeding].rp.Encoding # ""

\* C16: an attached troubleshooting list holds exactly one (codec name,
\* failure message) entry for each codec that was tried and failed, in the
\* order the codecs were tried, and no other entry.
C16_OneEntryPerFailedCodec ==
    (phase = "done" /\ ~rp.Troubleshooting.isNil) =>
        /\ len(Payload) > 0
        /\ rp.Troubleshooting.elems = [k \in 1..NumFailed |-> EntryOf(k)]

\* C16's case: six codecs failed, AvroSerde among them, before the seventh won,
\* troubleshooting was requested and the list holds the six entries
C16_Witness ==
    /\ phase = "done"
    /\ len(Payload) > 0
    /\ opts.Troubleshoot
    /\ WonWithLabel
    /\ FirstSucceeding = 7
    /\ len(rp.Troubleshooting) = 6
    /\ rp.Troubleshooting.elems[5].SerdeName = payloadEncodingAvro
    /\ rp.Troubleshooting.elems[5].Message = "incorrect magic byte"

\* C18: within one call the codecs are invoked in list order, each at most
\* once; no codec after the first succeeding one is invoked, and for an empty
\* payload none is.
C18_InvokedInOrderUpToWinner ==
    phase = "done" =>
        IF len(Payload) = 0
        THEN invoked = <<>>
        ELSE /\ invoked = SubSeq(SerDes, 1, Tried)
             /\ \A j, k \in 1..Len(invoked) : invoked[j] = invoked[k] => j = k

\* C18's case: the third codec won while the codecs after it would have
\* succeeded too, and only the first three were invoked
C18_Witness ==
    /\ phase = "done"
    /\ len(Payload) > 0
    /\ Succeeding # {}
    /\ FirstSucceeding = 3
    /\ \E j \in Succeeding : j > 3
    /\ invoked = <<"NoneSerde", "JSONSerde", "JSONSchemaSerde">>

\* C19: a failure of a codec, whatever its kind, does not end the chain: the
\* next codec of the list is still invoked, the failure is the codec's entry
\* in the troubleshooting list when that list is attached, and a later codec
\* that succeeds with a label still gives the result its label.
C19_FailureDoesNotAbortChain ==
    (phase = "done" /\ len(Payload) > 0) =>
        /\ \A k \in 1..Len(invoked) :
              (Answers[k].err # NoErr /\ k < Len(SerDes)) =>
                 /\ Len(invoked) > k
                 /\ invoked[k + 1] = SerDes[k + 1]
                 /\ ~rp.Troubleshooting.isNil =>
                       /\ len(rp.Troubleshooting) >= k
                       /\ rp.Troubleshooting.elems[k] = EntryOf(k)
        /\ WonWithLabel => rp.Encoding = Answers[FirstSucceeding].rp.Encoding

\* C19's case: AvroSerde could not resolve the schema of a well-formed frame,
\* its failure is in the list, and a codec after it won
C19_Witness ==
    /\ phase = "done"
    /\ len(Payload) > 0
    /\ Answers[5].err = "getting avro schema from registry"
    /\ WonWithLabel
    /\ FirstSucceeding > 5
    /\ rp.Encoding = Name(SerDes[FirstSucceeding])
    /\ ~rp.Troubleshooting.isNil
    /\ rp.Troubleshooting.elems[5] = EntryOf(5)

\* C20: when a codec succeeds with a non-empty label, the troubleshooting
\* entries are attached to the result if and only if opts.Troubleshoot is
\* true; without it the result carries no entry of the codecs that failed
\* before the winner.
C20_EntriesOnlyOnRequest ==
    (phase = "done" /\ len(Payload) > 0 /\ WonWithLabel) =>
        /\ ~rp.Troubleshooting.isNil <=> opts.Troubleshoot
        /\ ~opts.Troubleshoot => len(rp.Troubleshooting) = 0

\* C20's case: codecs failed before the winner, troubleshooting was not
\* requested and the result carries no list
C20_Witness ==
    /\ phase = "done"
    /\ len(Payload) > 0
    /\ WonWithLabel
    /\ FirstSucceeding > 2
    /\ ~opts.Troubleshoot
    /\ rp.Troubleshooting.isNil
    /\ rp.Encoding = Name(SerDes[FirstSucceeding])

-----------------------------------------------------------------------------
(* Properties of DeserializeRecord (SpecRecord) *)

\* DeserializeRecord went through the general path: key and value were
\* deserialized by deserializePayload
GeneralPath == phase = "done" /\ ~recRet.rec.isNil /\ ~recRet.rec.offsets

\* the limit C17 states for the options DeserializeRecord was called with
ClaimedLimit == IF opts.MaxPayloadSize <= 0 THEN 1000000 ELSE opts.MaxPayloadSize

\* the deserializePayload calls DeserializeRecord made
PayloadCalls ==
    {k \in 1..Len(recRet.calls) : recRet.calls[k].fn = "deserializePayload"}

\* C17: called with MaxPayloadSize zero or negative, DeserializeRecord applies
\* the limit 1,000,000 to key and value; called with a positive MaxPayloadSize
\* it applies that value: both deserializePayload calls get the limit, and a
\* non-empty key or value is reported too large exactly when it is longer.
C17_DefaultLimit ==
    GeneralPath =>
        /\ {recRet.calls[k].payloadType : k \in PayloadCalls} = PayloadTypes
        /\ \A k \in PayloadCalls : recRet.calls[k].MaxPayloadSize = ClaimedLimit
        /\ len(record.Key) > 0 =>
              (recRet.rec.Key.IsPayloadTooLarge <=> len(record.Key) > ClaimedLimit)
        /\ len(record.Value) > 0 =>
              (recRet.rec.Value.IsPayloadTooLarge <=> len(record.Value) > ClaimedLimit)

\* C17's case: the call was made with a negative MaxPayloadSize, key and value
\* are not empty, and neither is reported too large
C17_Witness ==
    /\ GeneralPath
    /\ opts.MaxPayloadSize < 0
    /\ len(record.Key) = 6
    /\ len(record.Value) = 1
    /\ ~recRet.rec.Key.IsPayloadTooLarge
    /\ ~recRet.rec.Value.IsPayloadTooLarge
    /\ \A k \in PayloadCalls : recRet.calls[k].MaxPayloadSize = 1000000

-----------------------------------------------------------------------------
(* The options SerializeRecord passes on (SpecSerialize) *)

\* the options the caller supplied for the side of the payload type
CallerOptions(pt) ==
    IF pt = PayloadTypeKey THEN input.Key.Options ELSE input.Value.Options

\* the positions of the topic-derived option in a list of options
TopicAt(options) == {i \in 1..Len(options) : options[i] = WithTopic(input.Topic)}

\* the positions of the caller's options in a list of options
CallerAt(options, pt) ==
    {j \in 1..Len(options) : \E c \in 1..Len(CallerOptions(pt)) :
                                options[j] = CallerOptions(pt)[c]}

\* C21 as claimed: every SerializeObject call, for key and value alike, gets an
\* option list that contains the topic-derived option, placed before every
\* option the caller supplied.
C21_TopicOptionFirst ==
    phase = "done" =>
        \A k \in 1..Len(serRet.calls) :
            LET call == serRet.calls[k]
            IN  /\ TopicAt(call.options) # {}
                /\ \A i \in TopicAt(call.options) :
                      \A j \in CallerAt(call.options, call.payloadType) : i < j

\* C21 as amended: every SerializeObject call, for key and value alike, gets
\* the caller's options of that side in their order, followed by the
\* topic-derived option when input.Topic is not empty; when input.Topic is
\* empty the list holds the caller's options only.
C21_TopicOptionLast ==
    phase = "done" =>
        \A k \in 1..Len(serRet.calls) :
            LET call == serRet.calls[k]
                caller == CallerOptions(call.payloadType)
            IN  IF input.Topic # ""
                THEN /\ Len(call.options) = Len(caller) + 1
                     /\ SubSeq(call.options, 1, Len(caller)) = caller
                     /\ call.options[Len(call.options)] = WithTopic(input.Topic)
                ELSE call.options = caller

\* C21's case: key and value were encoded for a topic with an option of the
\* caller on each side, and both calls got the caller's option first
C21_Witness ==
    /\ phase = "done"
    /\ input.Topic = "topic"
    /\ Len(serRet.calls) = 2
    /\ input.Key.Options = <<CallerOpt>>
    /\ input.Value.Options = <<CallerOpt>>
    /\ \A k \in 1..2 : serRet.calls[k].options = <<CallerOpt, WithTopic("topic")>>

-----------------------------------------------------------------------------
(* The consumer-offsets path of DeserializeRecord (SpecRecord) *)

\* the calls DeserializeRecord made to the dedicated decoder
OffsetCalls ==
    {k \in 1..Len(recRet.calls) : recRet.calls[k].fn = "deserializeConsumerOffset"}

\* what DeserializeRecord returns for the same record on another topic
GeneralResult ==
    DeserializeRecord(SerDes, serdeOutcome, schemaSvc,
                      [record EXCEPT !.Topic = "topic"], opts, offsetOutcome).rec

\* the codec names of the entries of a payload's troubleshooting list
EntryNames(payload) ==
    {payload.Troubleshooting.elems[k].SerdeName : k \in 1..len(payload.Troubleshooting)}

\* C22: for a record of the consumer-offsets topic the dedicated decoder is
\* called first; when it succeeds its record is returned and deserializePayload
\* is called for neither key nor value; when it fails the result is the one
\* of the general path for the same record, and no troubleshooting entry is
\* about the dedicated attempt. For every other topic the dedicated decoder
\* is not called.
C22_ConsumerOffsetsFirst ==
    phase = "done" =>
        IF record.Topic = "__consumer_offsets"
        THEN /\ OffsetCalls = {1}
             /\ IF offsetOutcome = "ok"
                THEN /\ recRet.rec = deserializeConsumerOffset(record, offsetOutcome).rec
                     /\ recRet.rec.offsets
                     /\ PayloadCalls = {}
                ELSE /\ recRet.rec = GeneralResult
                     /\ PayloadCalls = {2, 3}
                     /\ EntryNames(recRet.rec.Key) \cup EntryNames(recRet.rec.Value)
                           \subseteq {Name(SerDes[k]) : k \in 1..Len(SerDes)}
        ELSE /\ OffsetCalls = {}
             /\ ~recRet.rec.offsets
             /\ PayloadCalls = {1, 2}

\* C22's case: the dedicated decoder failed on a record of the consumer-offsets
\* topic, the codecs then failed on the key, and the key's troubleshooting
\* list has the twelve entries of the codecs only
C22_Witness ==
    /\ phase = "done"
    /\ record.Topic = "__consumer_offsets"
    /\ offsetOutcome = "fail"
    /\ Len(recRet.calls) = 3
    /\ ~recRet.rec.isNil
    /\ recRet.rec.Key.Encoding = PayloadEncodingBinary
    /\ len(recRet.rec.Key.Troubleshooting) = 12

-----------------------------------------------------------------------------
(* The frame AvroSerde.DeserializePayload reads (SpecAvro) *)

\* C23: the schema identifier passed to the resolver is the big-endian value
\* of payload bytes 1 to 4, b1*2^24 + b2*2^16 + b3*2^8 + b4, and the bytes
\* handed to the Avro decoder, with the resolved schema, are bytes 5 to the
\* end.
C23_BigEndianIdentifier ==
    phase = "done" =>
        /\ avroRet.resolverCalls # <<>> =>
              avroRet.resolverCalls =
                 << Payload.elems[2] * 16777216 + Payload.elems[3] * 65536
                    + Payload.elems[4] * 256 + Payload.elems[5] >>
        /\ avroRet.decoderCalls # <<>> =>
              /\ Len(avroRet.decoderCalls) = 1
              /\ avroRet.decoderCalls[1].schema = avroRet.resolverCalls[1]
              /\ avroRet.decoderCalls[1].data =
                    [k \in 1..(len(Payload) - 5) |-> Payload.elems[k + 5]]

\* C23's case: the identifier bytes are 127, 0, 127, 0 and the resolver was
\* asked for 2130738944
C23_Witness ==
    /\ phase = "done"
    /\ Framed
    /\ SubSeq(Payload.elems, 2, 5) = <<127, 0, 127, 0>>
    /\ avroRet.resolverCalls = <<2130738944>>

\* a second case of C23: the frame carries identifier 1792 in bytes 0, 0, 7, 0,
\* the resolver resolved it and the decoder got the one byte after them
C23_DecoderWitness ==
    /\ phase = "done"
    /\ Framed
    /\ avroRet.resolverCalls = <<1792>>
    /\ avroRet.decoderCalls = <<[schema |-> 1792, data |-> <<7>>]>>

-----------------------------------------------------------------------------
(* The side of the record AvroSerde.DeserializePayload reads (SpecAvro) *)

\* the bytes of the side the codec was asked to decode, and of the other side
AskedSide == IF payloadType = PayloadTypeKey THEN record.Key ELSE record.Value
OtherSide == IF payloadType = PayloadTypeKey THEN record.Value ELSE record.Key

\* the bytes are a frame the schema service resolves and decodes
Decodable(bytes) ==
    /\ schemaSvc.configured
    /\ schemaSvc.decodes
    /\ len(bytes) > 5
    /\ bytes.elems[1] = 0
    /\ (bytes.elems[2] * 16777216 + bytes.elems[3] * 65536
        + bytes.elems[4] * 256 + bytes.elems[5]) \in schemaSvc.known

\* C24: a codec asked to decode the key reads the record's key bytes only, and
\* one asked to decode the value reads the value bytes only: a decodable
\* payload on the asked side is decoded from that side's bytes whatever the
\* other side holds, and a payload that is not decodable on the asked side
\* fails even when the other side holds a decodable one.
C24_ReadsTheAskedSide ==
    phase = "done" =>
        /\ Decodable(AskedSide) =>
              /\ avroRet.err = NoErr
              /\ avroRet.rp.ParsedPayload.data =
                    [k \in 1..(len(AskedSide) - 5) |-> AskedSide.elems[k + 5]]
        /\ ~Decodable(AskedSide) => avroRet.err # NoErr
        /\ avroRet.resolverCalls # <<>> =>
              /\ len(AskedSide) > 5
              /\ avroRet.resolverCalls[1] =
                    AskedSide.elems[2] * 16777216 + AskedSide.elems[3] * 65536
                    + AskedSide.elems[4] * 256 + AskedSide.elems[5]

\* C24's case: the record carries a decodable frame in its value only, and
\* asked for the value the codec decodes it
C24_Witness ==
    /\ phase = "done"
    /\ payloadType = PayloadTypeValue
    /\ record.Key = NilSlice
    /\ Decodable(record.Value)
    /\ avroRet.err = NoErr
    /\ avroRet.rp.Encoding = payloadEncodingAvro

\* a second case of C24: the record carries a decodable frame in its value
\* only, and asked for the key the codec fails
C24_OtherSideWitness ==
    /\ phase = "done"
    /\ payloadType = PayloadTypeKey
    /\ record.Key = NilSlice
    /\ Decodable(record.Value)
    /\ avroRet.err = "payload length is < 5"

-----------------------------------------------------------------------------
(* The periodic task of streamProgressReporter (SpecReporter) *)

\* the periodic task is running
TaskRunning ==
    reporter.pc \in {"select", "loadMessages", "loadBytes", "send", "sleep"}

\* the progress messages sent while the context was already cancelled
SentAfterCancel == {i \in DOMAIN stream : stream[i].afterCancel}

\* C25: the periodic task started by Start terminates once its context is
\* cancelled: at most one progress message is sent after the cancellation, and
\* a running task whose context is cancelled eventually exits.
C25_TaskExitsAfterCancel ==
    /\ [](Cardinality(SentAfterCancel) <= 1)
    /\ ((ctxDone /\ TaskRunning) ~> (reporter.pc = "exited"))

\* C25's case: the context was cancelled while the task was reporting, the
\* task sent that one message after the cancellation, and it has exited
C25_Witness ==
    /\ reporter.pc = "exited"
    /\ ctxDone
    /\ Len(stream) >= 2
    /\ SentAfterCancel = {Len(stream)}

-----------------------------------------------------------------------------
(* The counters of streamProgressReporter (SpecReporter) *)

RECURSIVE SumOfSizes(_)
\* the sum of the sizes of the first n OnMessageConsumed calls
SumOfSizes(n) == IF n = 0 THEN 0 ELSE consumers[n].size + SumOfSizes(n - 1)

\* every OnMessageConsumed call has completed
AllCallsCompleted == \A c \in DOMAIN consumers : consumers[c].pc = "done"

\* C26: under every interleaving of OnMessageConsumed calls with the
\* reporter's reads no increment is lost: once all calls have completed,
\* messagesConsumed is the number of calls and bytesConsumed the sum of their
\* sizes; and each counter never decreases from one progress snapshot to the
\* next.
C26_NoLostIncrement ==
    /\ AllCallsCompleted =>
          /\ messagesConsumed = Len(consumers)
          /\ bytesConsumed = SumOfSizes(Len(consumers))
    /\ \A i, j \in DOMAIN stream :
          i < j =>
              /\ stream[i].MessagesConsumed <= stream[j].MessagesConsumed
              /\ stream[i].BytesConsumed <= stream[j].BytesConsumed

\* C26's case: two calls with positive sizes ran in between the reporter's
\* reads: the first snapshot saw one message and no bytes yet, a later one saw
\* both calls whole
C26_Witness ==
    /\ AllCallsCompleted
    /\ Len(consumers) >= 2
    /\ \A c \in DOMAIN consumers : consumers[c].size > 0
    /\ Len(stream) >= 2
    /\ stream[1].MessagesConsumed = 1
    /\ stream[1].BytesConsumed = 0
    /\ stream[Len(stream)].MessagesConsumed = Len(consumers)
    /\ stream[Len(stream)].BytesConsumed = SumOfSizes(Len(consumers))

-----------------------------------------------------------------------------
(* The completion channel of GetSchemasIndividually (SpecSchemasFair) *)

\* the tasks in the given position
TasksAt(positions) == {k \in DOMAIN task : task[k].pc \in positions}

\* C27: no per-subject task of GetSchemasIndividually blocks forever on
\* delivering its result: the channel's capacity is the number of tasks, each
\* task that has finished has sent exactly one result, so the buffer has room
\* whenever a task is about to send, and no task stays about to send for
\* ever, also after the parent has returned.
C27_NoSendBlocks ==
    /\ [](/\ task # <<>> => chCap = Len(task)
          /\ Cardinality(TasksAt({"done"})) = Len(ch) + Len(received)
          /\ \A k \in TasksAt({"sending"}) : Len(ch) < chCap)
    /\ []<>(TasksAt({"sending"}) = {})

\* C27's case: the parent returned on the first failed completion, and the
\* two other tasks have sent their results into the buffer nobody reads
C27_Witness ==
    /\ pc = "fetchFailed"
    /\ Len(task) = 3
    /\ Len(received) = 1
    /\ Len(ch) = 2
    /\ TasksAt({"done"}) = DOMAIN task

-----------------------------------------------------------------------------
(* Termination of GetSchemasIndividually (SpecSchemasFair) *)

\* the receive loop is waiting for a completion
Waiting == pc = "collect" /\ Len(schemas) < chCap

\* C28: GetSchemasIndividually always eventually returns when the subject
\* listing and every fetch return: while it receives, the completions it still
\* waits for are those in the buffer and those of the launched tasks that have
\* not sent yet, and with zero subjects it returns an empty list, not nil,
\* having received nothing.
C28_EventuallyReturns ==
    /\ (pc = "individually") ~> (pc \in {"subjectsFailed", "fetchFailed", "allFetched"})
    /\ [](/\ pc = "collect" =>
                chCap - Len(received) =
                    Len(ch) + Cardinality(TasksAt({"fetching", "sending"}))
          /\ Waiting => Len(ch) + Cardinality(TasksAt({"fetching", "sending"})) >= 1
          /\ (pc \in {"collect", "allFetched"} /\ chCap = 0) =>
                /\ received = <<>>
                /\ requests[Len(requests)].path = "/subjects"
          /\ (pc = "allFetched" /\ subjects = <<>>) =>
                /\ gsRet = [schemas |-> Slice(<<>>), err |-> NilError]
                /\ received = <<>>)

\* C28's case: the registry listed no subject and GetSchemasIndividually
\* returned the empty list after the one request of the listing
C28_Witness ==
    /\ pc = "allFetched"
    /\ subjects = <<>>
    /\ task = <<>>
    /\ gsRet.schemas = Slice(<<>>)
    /\ requests # <<>>
    /\ requests[Len(requests)].path = "/subjects"

\* a second case of C28: three tasks were launched and GetSchemasIndividually
\* returned the three schemas after three completions
C28_AllFetchedWitness ==
    /\ pc = "allFetched"
    /\ Len(subjects) = 3
    /\ Len(received) = 3
    /\ len(gsRet.schemas) = 3

=============================================================================
